---- MODULE Spec2Model ----
(***************************************************************************)
(* The record store of the banana sales backend: the tables sales,         *)
(* conflicts and sync_log with the triggers and functions of               *)
(* database/schema.sql, and the REST handlers of backend/server.js that    *)
(* mutate them.  A handler is a sequence of steps separated by its awaits  *)
(* on the store; every SQL statement is atomic.                            *)
(*                                                                         *)
(* Spec serves one request at a time; SpecRace has two update requests in  *)
(* flight at once.  The model follows one sale: every statement of the     *)
(* handlers addresses rows by id and the triggers fire row by row.         *)
(***************************************************************************)
EXTENDS Integers, Sequences, FiniteSets, TLC

\* ---- bounds ----
MaxVersion == 4         \* writes are disabled once a row reaches this version
MaxConflicts == 1       \* writes that would add a further conflict are disabled
MaxTime == 1            \* the clock stops at this instant
MaxViolations == 2      \* requests that would be refused beyond this are disabled
MaxPending == 1         \* broadcasts that would suspend a further fan-out are disabled
FanoutSockets == 52     \* sockets accepted while fan-outs are followed
HeartbeatSockets == 2   \* sockets accepted while the timers are followed
MaxClock == 3665000     \* Date.now() stops at this instant
MaxHeartbeats == 5      \* quarter minutes followed while the timers are followed
MaxCalls == 3           \* invocations followed on the pooled connection
MaxOps == 2             \* operations of a transaction
MaxRegistering == 1     \* register_device messages that would suspend a further handler are disabled

\* ---- constants of server.js ----
maxRequestsPerMinute == 60
maxRequestsPerSecond == 10
batchSize == 50
cleanupInterval == 30000
pingInterval == 30000

\* ---- small input sets ----
NULL == "NULL"                          \* SQL NULL / JS undefined, for text
None == {}                              \* SQL NULL / JS undefined, otherwise
Some(x) == {x}
The(s) == CHOOSE x \in s : TRUE
Clients == {"A", "B"}                   \* HTTP requests in flight at once
Devices == {"dev-1", "dev-2"}           \* device_id values of writers
Customers == {"c1", "c2"}               \* values of a business column
UUIDs == {<<3, 15>>, <<11, 7>>}         \* sales.id, as leading hex digits
Strategies == {"last_write_wins", "manual"}
Versions == {None} \cup {Some(v) : v \in 0..MaxVersion}  \* req.body.version

VARIABLES sales, conflicts, sync_log, now, pc, req, resp

\* the real-time side:
\*   sockets             every WebSocket accepted so far, ws being its index
\*   clients             the keys of the Map clients, in insertion order
\*   clientInfo          the clientInfo object of every ws ever added
\*   pending             the fan-outs suspended between two batches
\*   rateLimiterClients  the Map clients of the RateLimiter
\*   dateNow             Date.now(), in ms
\*   timers              the next firing time of the two setInterval timers
\*   sent                the frames sent to sockets in the last step
\*   broadcastResult     what broadcast returned to its caller in the last step
\*   broadcastLog        the counts a fan-out logged when it finished in the last step
\*   rateLimitResult     what isAllowed returned in the last step
VARIABLES sockets, clients, clientInfo, pending, rateLimiterClients, dateNow,
          timers, sent, broadcastResult, broadcastLog, rateLimitResult

\* the store behind the pool:
\*   pgPool      the pooled connection: how often it was acquired and
\*               released, and the session of the store it holds, with its
\*               open transaction and the effects not yet committed
\*   committed   the effects of statements that are visible in the store
\*   call        the invocation of executeQuery, executeTransaction or of the
\*               /api/sync handler that is running, or the last one
\*   devices     the device ids registered in the store
\*   registering the message handlers suspended at await registerDevice(...),
\*               in the order in which they were suspended
VARIABLES pgPool, committed, call, devices, registering

vars == <<sales, conflicts, sync_log, now, pc, req, resp,
          sockets, clients, clientInfo, pending, rateLimiterClients, dateNow,
          timers, sent, broadcastResult, broadcastLog, rateLimitResult,
          pgPool, committed, call, devices, registering>>

\* ---- pure helpers ----

\* parseInt(id): NaN unless the string starts with a decimal digit
ParseIntIsNaN(id) == id[1] >= 10

\* JS truthiness of the version token of the request body
Truthy(version) == version /= None /\ version /= Some(0)

\* COALESCE($n, column)
Coalesce(a, b) == IF a /= NULL THEN a ELSE b

\* row_to_json(row): snapshot of every column of the row
RowToJson(row) ==
    [id |-> row.id, customer |-> row.customer, updated_at |-> row.updated_at,
     version |-> row.version, device_id |-> row.device_id,
     is_deleted |-> row.is_deleted, sync_status |-> row.sync_status]

\* INSERT INTO sales ... column defaults
NewSale(id, customer, device_id, t) ==
    [id |-> id, customer |-> customer, updated_at |-> t, version |-> 1,
     device_id |-> device_id, is_deleted |-> FALSE, sync_status |-> "pending"]

\* the locals of a handler suspended at an await on the store: the route, the
\* id and version of the request, and the start time of its transaction.
\* currentSale is not kept: after the version check the handler only hands it
\* to logSyncOperation and to the metadata of the broadcast.
NoReq == [kind |-> "none", id |-> None, version |-> None, txnTime |-> 0]

\* no response sent in the last step
NoResp == [status |-> 0, code |-> NULL, data |-> None, broadcast |-> None]

\* the response sent in a step, res.status(status).json({code or error, data}),
\* and the broadcast(...) call that precedes it, if any
Reply(status, code, data, broadcast) ==
    [status |-> status, code |-> code, data |-> data, broadcast |-> broadcast]

\* ---- schema.sql: triggers of table sales ----

\* a trigger that goes by the versions alone
detect_conflicts_any_device(old, new) ==
    IF old.version /= new.version - 1
    THEN [row |-> [new EXCEPT !.sync_status = "conflict"],
          inserted |-> <<[record_id |-> new.id,
                          device_id_1 |-> old.device_id,
                          device_id_2 |-> new.device_id,
                          data_1 |-> RowToJson(old),
                          data_2 |-> RowToJson(new),
                          resolution_data |-> None,
                          resolution_strategy |-> NULL,
                          resolved_at |-> None,
                          is_resolved |-> FALSE]>>]
    ELSE [row |-> new, inserted |-> << >>]

\* BEFORE UPDATE trigger detect_sales_conflicts: the row it passes on and the
\* rows it inserts into conflicts
detect_conflicts(old, new) ==
    IF old.version /= new.version - 1 /\ old.device_id /= new.device_id
    THEN [row |-> [new EXCEPT !.sync_status = "conflict"],
          inserted |-> <<[record_id |-> new.id,
                          device_id_1 |-> old.device_id,
                          device_id_2 |-> new.device_id,
                          data_1 |-> RowToJson(old),
                          data_2 |-> RowToJson(new),
                          resolution_data |-> None,
                          resolution_strategy |-> NULL,
                          resolved_at |-> None,
                          is_resolved |-> FALSE]>>]
    ELSE [row |-> new, inserted |-> << >>]

\* variant of update_updated_at_column that leaves the version as the
\* statement set it
update_updated_at_column_keep(old, new, t) ==
    [new EXCEPT !.updated_at = t]

\* BEFORE UPDATE trigger update_sales_updated_at; t is CURRENT_TIMESTAMP
update_updated_at_column(old, new, t) ==
    [new EXCEPT !.updated_at = t, !.version = old.version + 1]

\* Both triggers are BEFORE UPDATE FOR EACH ROW; PostgreSQL fires them in the
\* alphabetical order of their names: detect_sales_conflicts, then
\* update_sales_updated_at, each seeing the NEW row the previous one returned.
FireBeforeUpdate(old, new, t) ==
    LET d == detect_conflicts(old, new)
    IN  [row |-> update_updated_at_column(old, d.row, t), inserted |-> d.inserted]

\* rows of sales matched by WHERE id = $1 AND is_deleted = FALSE
ActiveSale(id) == id \in DOMAIN sales /\ ~sales[id].is_deleted

\* the store after UPDATE sales SET ... WHERE id = ..., NEW being the row as
\* set by the statement
StoreAfterUpdate(id, new, t) ==
    LET f == FireBeforeUpdate(sales[id], new, t)
    IN  [sales |-> [sales EXCEPT ![id] = f.row],
         conflicts |-> conflicts \o f.inserted,
         row |-> f.row]

\* ---- server.js: DatabaseManager.handleDatabaseError and the catch blocks ----

\* errorMap: the SQLSTATE codes that are classified
errorMap ==
    [c \in {"23505", "23503", "23502", "23514", "42P01", "42703", "08006",
             "08003", "57P01", "53300"} |->
       CASE c = "23505" -> [code |-> "DUPLICATE_KEY", status |-> 409]
         [] c = "23503" -> [code |-> "FOREIGN_KEY_VIOLATION", status |-> 400]
         [] c = "23502" -> [code |-> "NOT_NULL_VIOLATION", status |-> 400]
         [] c = "23514" -> [code |-> "CHECK_VIOLATION", status |-> 400]
         [] c = "42P01" -> [code |-> "TABLE_NOT_FOUND", status |-> 500]
         [] c = "42703" -> [code |-> "COLUMN_NOT_FOUND", status |-> 500]
         [] c = "08006" -> [code |-> "CONNECTION_FAILURE", status |-> 503]
         [] c = "08003" -> [code |-> "CONNECTION_NOT_EXIST", status |-> 503]
         [] c = "57P01" -> [code |-> "ADMIN_SHUTDOWN", status |-> 503]
         [] c = "53300" -> [code |-> "TOO_MANY_CONNECTIONS", status |-> 503]]

\* An error object: its code and status properties.  An error of the store
\* driver has the SQLSTATE as code and no status; a TypeError has neither.
StoreError(sqlstate) == [code |-> sqlstate, status |-> None]
TypeError == [code |-> NULL, status |-> None]

\* handleDatabaseError(error): { ...mappedError, originalError, timestamp };
\* the object has a status and no statusCode
handleDatabaseError(error) ==
    IF error.code \in DOMAIN errorMap
    THEN [code |-> errorMap[error.code].code,
          status |-> Some(errorMap[error.code].status)]
    ELSE [code |-> "UNKNOWN_ERROR", status |-> Some(500)]

\* errorInfo.statusCode, a property handleDatabaseError does not set
StatusCode(errorInfo) == None

\* res.status(statusCode).json({code, ...}) in a catch block.  With a number
\* the response is sent.  With undefined the status is invalid and the send
\* throws out of the catch block of the async handler: the request gets no
\* response, or, where the framework hands rejected handlers to the error
\* middleware, its generic 500.
SendError(statusCode, code) ==
    IF statusCode /= None
    THEN {[status |-> The(statusCode), code |-> code, data |-> None,
           broadcast |-> None]}
    ELSE {[status |-> 0, code |-> NULL, data |-> None, broadcast |-> None],
          [status |-> 500, code |-> "Internal server error", data |-> None,
           broadcast |-> None]}

\* catch block of POST /api/sales: error.status || 500, error.code ||
\* 'CREATE_SALE_ERROR'
CreateSaleCatch(error) ==
    SendError(IF error.status /= None THEN error.status ELSE Some(500),
              IF error.code /= NULL THEN error.code ELSE "CREATE_SALE_ERROR")

\* catch block of PUT and of DELETE /api/sales/:id: handleDatabaseError, then
\* res.status(errorInfo.statusCode)
UpdateSaleCatch(error) ==
    SendError(StatusCode(handleDatabaseError(error)),
              handleDatabaseError(error).code)

\* the SQLSTATE codes statements are let fail with: a duplicate key, a
\* connection failure and an internal error the errorMap does not list
Sqlstates == {"23505", "08006", "XX000"}

\* the error a query rejects with on a connection that is gone: an Error
\* without SQLSTATE and without status
ConnectionError == [code |-> NULL, status |-> None]

\* an error object that went through handleDatabaseError carries a status
Typed(error) == error.status /= None

\* catch block of executeTransaction: await client.query('ROLLBACK'), then
\* throw this.handleDatabaseError(error).  What the call throws, given the
\* error caught and the error the ROLLBACK rejected with, if it did.
executeTransactionCatch(error, rollbackError) ==
    IF rollbackError /= None THEN The(rollbackError)
    ELSE handleDatabaseError(error)

\* no invocation
NoCall ==
    [k |-> 0, fn |-> "none", pc |-> "done", ops |-> 0, i |-> 0,
     valid |-> TRUE, acquired |-> 0, releases |-> 0, caught |-> None,
     error |-> None, status |-> None, outcome |-> "none"]

\* the effects of the statements of invocation k, n of them
Effects(k, n) == {<<k, j>> : j \in 1..n}

\* sync_log.operation_type CHECK constraint
SyncLogOperationTypes == {"create", "update", "delete", "sync"}

\* logSyncOperation: the INSERT into sync_log, which the CHECK constraint on
\* operation_type rejects or accepts; a store error is caught and swallowed.
\* The old_data and new_data columns are left out of the entry.
LogSyncOperation(log, device_id, operation_type, record_id) ==
    IF operation_type \in SyncLogOperationTypes
    THEN Append(log, [device_id |-> device_id, operation_type |-> operation_type,
                      table_name |-> "sales", record_id |-> record_id])
    ELSE log

\* a logSyncOperation that throws what the store threw
logSyncOperationRethrows(operation_type) ==
    operation_type \notin SyncLogOperationTypes

\* logSyncOperation throws to its caller: never, its catch block logs the
\* error of the store and returns null
logSyncOperationThrows(operation_type) == FALSE

\* the broadcast(...) call of a handler: the event and the excluded device
DataSync(operation, id, device_id) ==
    [type |-> "data_sync", operation |-> operation, id |-> id,
     excludeDeviceId |-> device_id]

\* ---- server.js: RateLimiter ----

\* Strings that are concatenated are kept as sequences of their parts.
WebsocketConnection == <<"websocket", "_", "connection">>
WebsocketMessage == <<"websocket", "_", "message">>

\* a key that leaves the endpoint out
ClientKeyOfClient(clientId, endpoint) == clientId

\* `${clientId}_${endpoint}`
ClientKey(clientId, endpoint) == clientId \o <<"_">> \o endpoint

\* a filter that keeps the request made exactly one minute ago
PruneInclusive(requests, t) ==
    SelectSeq(requests, LAMBDA time : time >= t - 60000)

\* client.requests.filter(time => time > oneMinuteAgo)
Prune(requests, t) ==
    SelectSeq(requests, LAMBDA time : time > t - 60000)

\* a burst test that lets one more request through
BurstLimitedAbove(recentRequests) ==
    Len(recentRequests) > maxRequestsPerSecond

\* recentRequests.length >= this.maxRequestsPerSecond
BurstLimited(recentRequests) ==
    Len(recentRequests) >= maxRequestsPerSecond

\* a minute test that lets one more request through
MinuteLimitedAbove(requests) ==
    Len(requests) > maxRequestsPerMinute

\* client.requests.length >= this.maxRequestsPerMinute
MinuteLimited(requests) ==
    Len(requests) >= maxRequestsPerMinute

\* a counter that counts a refusal twice
ViolationTwice(client) == client.violations + 2

\* client.violations++
Violation(client) == client.violations + 1

\* RateLimiter.isAllowed(clientId, endpoint) at Date.now() = t: the Map
\* afterwards and the object returned
isAllowed(rl, clientId, endpoint, t) ==
    LET clientKey == ClientKey(clientId, endpoint)
    IN  IF clientKey \notin DOMAIN rl
        THEN [clients |-> [k \in DOMAIN rl \cup {clientKey} |->
                             IF k = clientKey
                             THEN [requests |-> <<t>>, lastReset |-> t,
                                   violations |-> 0]
                             ELSE rl[k]],
              result |-> [allowed |-> TRUE,
                          remaining |-> maxRequestsPerMinute - 1,
                          resetTime |-> None, violations |-> None]]
        ELSE LET client == rl[clientKey]
                 oneMinuteAgo == t - 60000
                 requests == Prune(client.requests, t)
                 oneSecondAgo == t - 1000
                 recentRequests == SelectSeq(requests,
                                             LAMBDA time : time > oneSecondAgo)
             IN  IF MinuteLimited(requests)
                 THEN [clients |-> [rl EXCEPT ![clientKey] =
                                      [client EXCEPT
                                         !.requests = requests,
                                         !.violations = Violation(client)]],
                       result |-> [allowed |-> FALSE, remaining |-> 0,
                                   resetTime |-> Some(oneMinuteAgo + 60000),
                                   violations |-> Some(Violation(client))]]
                 ELSE IF BurstLimited(recentRequests)
                 THEN [clients |-> [rl EXCEPT ![clientKey] =
                                      [client EXCEPT
                                         !.requests = requests,
                                         !.violations = Violation(client)]],
                       result |-> [allowed |-> FALSE,
                                   remaining |-> maxRequestsPerMinute - Len(requests),
                                   resetTime |-> Some(oneSecondAgo + 1000),
                                   violations |-> Some(Violation(client))]]
                 ELSE [clients |-> [rl EXCEPT ![clientKey] =
                                      [client EXCEPT
                                         !.requests = Append(requests, t)]],
                       result |-> [allowed |-> TRUE,
                                   remaining |-> maxRequestsPerMinute
                                                   - (Len(requests) + 1),
                                   resetTime |-> None,
                                   violations |-> Some(client.violations)]]

\* the requests of a window that cleanup() keeps at Date.now() = t
KeptByCleanup(client, t) ==
    LET oneHourAgo == t - 3600000
    IN  SelectSeq(client.requests, LAMBDA time : time > oneHourAgo)

\* a test for inactive clients that goes by the emptied window alone
InactiveWhenEmpty(client, t) ==
    Len(KeptByCleanup(client, t)) = 0

\* client.requests.length === 0 && client.lastReset < oneHourAgo
Inactive(client, t) ==
    LET oneHourAgo == t - 3600000
    IN  Len(KeptByCleanup(client, t)) = 0 /\ client.lastReset < oneHourAgo

\* RateLimiter.cleanup() at Date.now() = t: the Map afterwards
cleanup(rl, t) ==
    [clientKey \in {k \in DOMAIN rl : ~Inactive(rl[k], t)} |->
       [rl[clientKey] EXCEPT !.requests = KeptByCleanup(rl[clientKey], t)]]

\* the violation counter stays within its bound
WithinViolations(result) ==
    IF result.allowed THEN TRUE ELSE The(result.violations) <= MaxViolations

\* ---- server.js: WebSocketManager and broadcast ----

\* a frame handed to ws.send (or ws.ping): its type and, of its payload, the
\* deviceId, resetTime and violations
Frame(ws, type) ==
    [ws |-> ws, type |-> type, deviceId |-> NULL, resetTime |-> None,
     violations |-> None]

\* a frame that names a device: the writer of a data_sync (metadata.deviceId),
\* the device that registered, connected or disconnected
Event(ws, type, deviceId) == [Frame(ws, type) EXCEPT !.deviceId = deviceId]

\* a refusal that says nothing of the window
RateLimitExceededBare(ws, result) == Frame(ws, "rate_limit_exceeded")

\* the frame sent for a message that the rate limit refused
RateLimitExceeded(ws, result) ==
    [Frame(ws, "rate_limit_exceeded") EXCEPT !.resetTime = result.resetTime,
                                             !.violations = result.violations]

\* the elements of a sequence
Range(seq) == {seq[i] : i \in DOMAIN seq}

\* a registry that keeps the sockets it is told to remove
removeClientNever(registry, gone) == registry

\* WebSocketManager.removeClient for every ws of a set
removeClient(registry, gone) ==
    SelectSeq(registry, LAMBDA ws : ws \notin gone)

\* a batch sent to every open socket, the excluded device included
sendBatchToAll(socks, info, batch, excludeDeviceId) ==
    LET eligible == {ws \in Range(batch) : socks[ws].readyState = "OPEN"}
    IN  [delivered |-> {ws \in eligible : ~socks[ws].sendThrows},
         failed |-> {ws \in eligible : socks[ws].sendThrows}]

\* sendBatch(batch) of broadcast: the sockets that were sent the message and
\* those whose send threw, each of which is removed from the registry
sendBatch(socks, info, batch, excludeDeviceId) ==
    LET eligible == {ws \in Range(batch) :
                       /\ socks[ws].readyState = "OPEN"
                       /\ info[ws].deviceId /= excludeDeviceId}
    IN  [delivered |-> {ws \in eligible : ~socks[ws].sendThrows},
         failed |-> {ws \in eligible : socks[ws].sendThrows}]

\* clientArray.slice(i, i + batchSize), i counting from 0
Slice(clientArray, i) ==
    SubSeq(clientArray, i + 1,
           IF i + batchSize < Len(clientArray) THEN i + batchSize
                                               ELSE Len(clientArray))

\* a broadcast that returns when every batch has been sent
broadcastAwaited(socks, registry, info, type, excludeDeviceId) ==
    LET b == sendBatch(socks, info, registry, excludeDeviceId)
        counts == [successCount |-> Cardinality(b.delivered),
                   failureCount |-> Cardinality(b.failed)]
    IN  [clients |-> removeClient(registry, b.failed),
         sent |-> {Event(ws, type, excludeDeviceId) : ws \in b.delivered},
         pending |-> pending,
         returned |-> counts,
         log |-> Some(counts)]

\* broadcast(data, excludeDeviceId): the first batch is sent before the first
\* await of processBatches, that is before broadcast returns; the other
\* batches are left to a suspended fan-out.  socks, registry and info are the
\* sockets, the Map clients and its clientInfo objects at the call.
broadcast(socks, registry, info, type, excludeDeviceId) ==
    LET clientArray == registry
        b == sendBatch(socks, info, Slice(clientArray, 0), excludeDeviceId)
        counts == [successCount |-> Cardinality(b.delivered),
                   failureCount |-> Cardinality(b.failed)]
        more == batchSize < Len(clientArray)
    IN  [clients |-> removeClient(registry, b.failed),
         sent |-> {Event(ws, type, excludeDeviceId) : ws \in b.delivered},
         pending |-> IF more
                     THEN Append(pending,
                                 [type |-> type,
                                  excludeDeviceId |-> excludeDeviceId,
                                  clientArray |-> clientArray,
                                  i |-> batchSize,
                                  successCount |-> counts.successCount,
                                  failureCount |-> counts.failureCount,
                                  returned |-> counts])
                     ELSE pending,
         returned |-> counts,
         log |-> IF more THEN None ELSE Some(counts)]

\* a step of a handler that is modelled as a whole leaves the pool, the
\* statements, the registered devices and the registrations awaited alone
NoDatabase == UNCHANGED <<pgPool, committed, call, devices, registering>>

\* a step of the record store leaves the real-time side alone
NoRealtime ==
    /\ NoDatabase
    /\ sent' = {}
    /\ broadcastResult' = None
    /\ broadcastLog' = None
    /\ rateLimitResult' = None
    /\ UNCHANGED <<sockets, clients, clientInfo, pending, rateLimiterClients,
                   dateNow, timers>>

\* the broadcast(...) call of a REST handler
HandlerBroadcast(type, excludeDeviceId) ==
    LET b == broadcast(sockets, clients, clientInfo, type, excludeDeviceId)
    IN  /\ Len(b.pending) <= MaxPending
        /\ clients' = b.clients
        /\ pending' = b.pending
        /\ sent' = b.sent
        /\ broadcastResult' = Some(b.returned)
        /\ broadcastLog' = b.log
        /\ rateLimitResult' = None
        /\ UNCHANGED <<sockets, clientInfo, rateLimiterClients, dateNow, timers>>
        /\ NoDatabase

\* a step of the real-time side leaves the record store alone
NoStore ==
    /\ resp' = NoResp
    /\ UNCHANGED <<sales, conflicts, sync_log, now, pc, req>>
    /\ NoDatabase

Init ==
    /\ sockets = << >>
    /\ clients = << >>
    /\ clientInfo = << >>
    /\ pending = << >>
    /\ rateLimiterClients = << >>
    /\ dateNow = 0
    /\ timers = [cleanup |-> cleanupInterval, ping |-> pingInterval]
    /\ sent = {}
    /\ broadcastResult = None
    /\ broadcastLog = None
    /\ rateLimitResult = None
    /\ sales = << >>
    /\ conflicts = << >>
    /\ sync_log = << >>
    /\ now = 0
    /\ pc = [c \in Clients |-> "idle"]
    /\ req = [c \in Clients |-> NoReq]
    /\ resp = NoResp
    /\ pgPool = [acquired |-> 0, released |-> 0, inTransaction |-> FALSE,
                 tentative |-> {}]
    /\ committed = {}
    /\ call = NoCall
    /\ devices = {}
    /\ registering = << >>

\* the wall clock advances between any two steps
Tick ==
    /\ now < MaxTime
    /\ now' = now + 1
    /\ resp' = NoResp
    /\ UNCHANGED <<sales, conflicts, sync_log, pc, req>>
    /\ NoRealtime

\* ---- POST /api/sales ----
\* registerDevice, INSERT, logSyncOperation, broadcast and the response
CreateSale(customer, device_id) ==
    /\ DOMAIN sales = {}
    /\ IF customer = NULL \/ device_id = NULL
       THEN /\ resp' = Reply(400, "VALIDATION_ERROR", None, None)
            /\ UNCHANGED <<sales, sync_log>>
            /\ NoRealtime
       ELSE \E id \in UUIDs :
              LET newSale == NewSale(id, customer, device_id, now)
              IN  /\ sales' = [i \in DOMAIN sales \cup {id} |->
                                 IF i = id THEN newSale ELSE sales[i]]
                  /\ sync_log' = LogSyncOperation(sync_log, device_id, "CREATE", id)
                  /\ IF logSyncOperationThrows("CREATE")
                     THEN /\ resp' \in CreateSaleCatch(handleDatabaseError(StoreError("23514")))
                          /\ NoRealtime
                     ELSE /\ HandlerBroadcast("data_sync", device_id)
                          /\ resp' = Reply(201, NULL, Some(newSale),
                                           Some(DataSync("CREATE", id, device_id)))
    /\ UNCHANGED <<conflicts, now, pc, req>>

\* ---- PUT /api/sales/:id ----

\* the optimistic locking check of the handler
VersionConflict(version, currentSale) ==
    Truthy(version) /\ currentSale.version /= The(version)

\* variant of PutSelect whose version check answers 409 without returning
PutSelectFallsThrough(c, id, device_id, version) ==
    /\ pc[c] = "idle"
    /\ IF device_id = NULL
       THEN /\ resp' = Reply(400, "MISSING_DEVICE_ID", None, None)
            /\ UNCHANGED <<pc, req>>
       ELSE IF ParseIntIsNaN(id)
       THEN /\ resp' = Reply(400, "INVALID_SALE_ID", None, None)
            /\ UNCHANGED <<pc, req>>
       ELSE IF ~ActiveSale(id)
       THEN /\ resp' = Reply(404, "SALE_NOT_FOUND", None, None)
            /\ UNCHANGED <<pc, req>>
       ELSE /\ pc' = [pc EXCEPT ![c] = "checked"]
            /\ req' = [req EXCEPT ![c] =
                    [kind |-> "put", id |-> Some(id), version |-> version,
                     txnTime |-> 0]]
            /\ resp' = IF VersionConflict(version, sales[id])
                       THEN Reply(409, "VERSION_CONFLICT", Some(sales[id]), None)
                       ELSE NoResp
    /\ UNCHANGED <<sales, conflicts, sync_log, now>>
    /\ NoRealtime

\* validation, SELECT of the current record and the version check
PutSelect(c, id, device_id, version) ==
    /\ pc[c] = "idle"
    /\ IF device_id = NULL
       THEN /\ resp' = Reply(400, "MISSING_DEVICE_ID", None, None)
            /\ UNCHANGED <<pc, req>>
       ELSE IF ParseIntIsNaN(id)
       THEN /\ resp' = Reply(400, "INVALID_SALE_ID", None, None)
            /\ UNCHANGED <<pc, req>>
       ELSE IF ~ActiveSale(id)
       THEN /\ resp' = Reply(404, "SALE_NOT_FOUND", None, None)
            /\ UNCHANGED <<pc, req>>
       ELSE IF VersionConflict(version, sales[id])
       THEN /\ resp' = Reply(409, "VERSION_CONFLICT", Some(sales[id]), None)
            /\ UNCHANGED <<pc, req>>
       ELSE /\ pc' = [pc EXCEPT ![c] = "checked"]
            /\ req' = [req EXCEPT ![c] =
                    [kind |-> "put", id |-> Some(id), version |-> version,
                     txnTime |-> 0]]
            /\ resp' = NoResp
    /\ UNCHANGED <<sales, conflicts, sync_log, now>>
    /\ NoRealtime

\* executeTransaction: BEGIN on a pooled connection; NOW() and
\* CURRENT_TIMESTAMP of the transaction are its start time
Begin(c) ==
    /\ pc[c] = "checked"
    /\ pc' = [pc EXCEPT ![c] = "begun"]
    /\ req' = [req EXCEPT ![c].txnTime = now]
    /\ resp' = NoResp
    /\ UNCHANGED <<sales, conflicts, sync_log, now>>
    /\ NoRealtime

\* the row as set by the UPDATE statement of the handler
PutSetClause(row, patch, device_id, t) ==
    [row EXCEPT !.customer = Coalesce(patch, row.customer),
                !.device_id = device_id,
                !.sync_status = "pending",
                !.updated_at = t]

\* executeTransaction: the UPDATE ... RETURNING * and COMMIT, then
\* logSyncOperation, broadcast and the response.  device_id and patch are the
\* fields of the request body, which the handler first uses here.
PutUpdate(c, device_id, patch) ==
    /\ pc[c] = "begun"
    /\ req[c].kind = "put"
    /\ LET r == req[c]
           id == The(r.id)
       IN  IF ActiveSale(id)
           THEN /\ sales[id].version < MaxVersion
                /\ LET s == StoreAfterUpdate(id,
                              PutSetClause(sales[id], patch, device_id, r.txnTime),
                              r.txnTime)
                   IN  /\ Len(s.conflicts) <= MaxConflicts
                       /\ sales' = s.sales
                       /\ conflicts' = s.conflicts
                       /\ sync_log' = LogSyncOperation(sync_log, device_id, "UPDATE", id)
                       /\ IF logSyncOperationThrows("UPDATE")
                          THEN /\ resp' \in UpdateSaleCatch(handleDatabaseError(StoreError("23514")))
                               /\ NoRealtime
                          ELSE /\ HandlerBroadcast("data_sync", device_id)
                               /\ resp' = Reply(200, NULL, Some(s.row),
                                                Some(DataSync("UPDATE", id, device_id)))
           ELSE \* no row returned: updatedSale.updated_at throws after
                \* logSyncOperation, and the catch block answers
                /\ sync_log' = LogSyncOperation(sync_log, device_id, "UPDATE", id)
                /\ resp' \in UpdateSaleCatch(TypeError)
                /\ UNCHANGED <<sales, conflicts>>
                /\ NoRealtime
    /\ pc' = [pc EXCEPT ![c] = "idle"]
    /\ req' = [req EXCEPT ![c] = NoReq]
    /\ UNCHANGED now

\* ---- DELETE /api/sales/:id ----

\* validation and SELECT of the sale before deletion
DelSelect(c, id, device_id) ==
    /\ pc[c] = "idle"
    /\ IF device_id = NULL
       THEN /\ resp' = Reply(400, "MISSING_DEVICE_ID", None, None)
            /\ UNCHANGED <<pc, req>>
       ELSE IF ParseIntIsNaN(id)
       THEN /\ resp' = Reply(400, "INVALID_SALE_ID", None, None)
            /\ UNCHANGED <<pc, req>>
       ELSE IF ~ActiveSale(id)
       THEN /\ resp' = Reply(404, "SALE_NOT_FOUND", None, None)
            /\ UNCHANGED <<pc, req>>
       ELSE /\ pc' = [pc EXCEPT ![c] = "checked"]
            /\ req' = [req EXCEPT ![c] =
                    [kind |-> "delete", id |-> Some(id), version |-> None,
                     txnTime |-> 0]]
            /\ resp' = NoResp
    /\ UNCHANGED <<sales, conflicts, sync_log, now>>
    /\ NoRealtime

\* the row as set by the UPDATE statement of soft_delete_sale
SoftDeleteSetClause(row, device_id) ==
    [row EXCEPT !.is_deleted = TRUE,
                !.device_id = device_id,
                !.sync_status = "pending"]

\* a soft delete whose UPDATE does not ask for is_deleted = FALSE
soft_delete_sale_again(id, device_id, t) ==
    IF id \in DOMAIN sales
    THEN LET s == StoreAfterUpdate(id, SoftDeleteSetClause(sales[id], device_id), t)
         IN  [sales |-> s.sales, conflicts |-> s.conflicts, found |-> TRUE]
    ELSE [sales |-> sales, conflicts |-> conflicts, found |-> FALSE]

\* schema.sql soft_delete_sale(p_sale_id, p_device_id) at time t: the store
\* afterwards and FOUND
soft_delete_sale(id, device_id, t) ==
    IF ActiveSale(id)
    THEN LET s == StoreAfterUpdate(id, SoftDeleteSetClause(sales[id], device_id), t)
         IN  [sales |-> s.sales, conflicts |-> s.conflicts, found |-> TRUE]
    ELSE [sales |-> sales, conflicts |-> conflicts, found |-> FALSE]

\* executeTransaction: SELECT soft_delete_sale(...) and COMMIT, then
\* logSyncOperation, broadcast and the response
DelExec(c, device_id) ==
    /\ pc[c] = "begun"
    /\ req[c].kind = "delete"
    /\ LET r == req[c]
           id == The(r.id)
           s == soft_delete_sale(id, device_id, r.txnTime)
       IN  /\ s.found => sales[id].version < MaxVersion
           /\ Len(s.conflicts) <= MaxConflicts
           /\ sales' = s.sales
           /\ conflicts' = s.conflicts
           /\ IF s.found
              THEN /\ sync_log' = LogSyncOperation(sync_log, device_id, "DELETE", id)
                   /\ IF logSyncOperationThrows("DELETE")
                      THEN /\ resp' \in UpdateSaleCatch(handleDatabaseError(StoreError("23514")))
                           /\ NoRealtime
                      ELSE /\ HandlerBroadcast("data_sync", device_id)
                           /\ resp' = Reply(200, NULL, None,
                                            Some(DataSync("DELETE", id, device_id)))
              ELSE /\ resp' = Reply(404, "DELETE_FAILED", None, None)
                   /\ UNCHANGED sync_log
                   /\ NoRealtime
    /\ pc' = [pc EXCEPT ![c] = "idle"]
    /\ req' = [req EXCEPT ![c] = NoReq]
    /\ UNCHANGED now

\* ---- POST /api/sync/mark-synced ----

\* the row as set by the UPDATE statement of the handler
MarkSyncedSetClause(row) == [row EXCEPT !.sync_status = "synced"]

\* one UPDATE ... WHERE id = ANY(sale_ids), the triggers firing for each row
MarkSynced(sale_ids) ==
    /\ IF sale_ids = {}
       THEN /\ resp' = Reply(400, "sale_ids array is required", None, None)
            /\ UNCHANGED sales
       ELSE LET hit == sale_ids \cap DOMAIN sales
            IN  /\ \A id \in hit : sales[id].version < MaxVersion
                /\ sales' = [id \in DOMAIN sales |->
                       IF id \in hit
                       THEN FireBeforeUpdate(sales[id],
                                MarkSyncedSetClause(sales[id]), now).row
                       ELSE sales[id]]
                /\ resp' = Reply(200, NULL, None, None)
    /\ UNCHANGED <<conflicts, sync_log, now, pc, req>>
    /\ NoRealtime

\* ---- POST /api/conflicts/:id/resolve ----

\* (data->>'updated_at')::timestamp of a snapshot
JsonUpdatedAt(data) == data.updated_at

\* variant of LatestData that always takes the second snapshot
LatestDataSecond(conflict_record) == conflict_record.data_2

\* the snapshot resolve_conflict_last_write_wins chooses
LatestData(conflict_record) ==
    IF JsonUpdatedAt(conflict_record.data_1) > JsonUpdatedAt(conflict_record.data_2)
    THEN conflict_record.data_1
    ELSE conflict_record.data_2

\* the row as set by the UPDATE sales statement of the function
ResolveSetClause(row, latest_data) ==
    [row EXCEPT !.customer = latest_data.customer,
                !.sync_status = "synced"]

\* schema.sql resolve_conflict_last_write_wins(p_conflict_id) at time t: the
\* store afterwards and the value returned
resolve_conflict_last_write_wins(p_conflict_id, t) ==
    IF p_conflict_id \notin DOMAIN conflicts
    THEN [sales |-> sales, conflicts |-> conflicts, result |-> FALSE]
    ELSE LET conflict_record == conflicts[p_conflict_id]
             latest_data == LatestData(conflict_record)
             id == conflict_record.record_id
         IN  [conflicts |-> [conflicts EXCEPT ![p_conflict_id] =
                    [@ EXCEPT !.resolution_data = Some(latest_data),
                              !.resolution_strategy = "last_write_wins",
                              !.resolved_at = Some(t),
                              !.is_resolved = TRUE]],
              sales |-> [sales EXCEPT ![id] =
                    FireBeforeUpdate(sales[id],
                        ResolveSetClause(sales[id], latest_data), t).row],
              result |-> TRUE]

\* variant of ResolveConflict that does not look at the strategy
ResolveAnyStrategy(id, strategy) ==
    /\ LET s == resolve_conflict_last_write_wins(id, now)
       IN  /\ s.result => sales[conflicts[id].record_id].version < MaxVersion
           /\ sales' = s.sales
           /\ conflicts' = s.conflicts
           /\ resp' = IF s.result
                      THEN Reply(200, "Conflict resolved successfully", None, None)
                      ELSE Reply(404, "Conflict not found", None, None)
    /\ UNCHANGED <<sync_log, now, pc, req>>
    /\ NoRealtime

\* the handler: the strategy check, the call of the function and the response
ResolveConflict(id, strategy) ==
    /\ IF strategy = "last_write_wins"
       THEN LET s == resolve_conflict_last_write_wins(id, now)
            IN  /\ s.result => sales[conflicts[id].record_id].version < MaxVersion
                /\ sales' = s.sales
                /\ conflicts' = s.conflicts
                /\ resp' = IF s.result
                           THEN Reply(200, "Conflict resolved successfully", None, None)
                           ELSE Reply(404, "Conflict not found", None, None)
       ELSE /\ resp' = Reply(400, "Unsupported resolution strategy", None, None)
            /\ UNCHANGED <<sales, conflicts>>
    /\ UNCHANGED <<sync_log, now, pc, req>>
    /\ NoRealtime

\* ---- wss.on('connection') ----

\* WebSocketManager.markClientAlive at Date.now() = t
markClientAlive(info, ws, t) ==
    IF ws \in Range(clients)
    THEN [info EXCEPT ![ws].isAlive = TRUE, ![ws].lastPing = t]
    ELSE info

\* a binding that does not look the connection up in the registry
updateClientDeviceAbsent(info, ws, deviceId) ==
    [info EXCEPT ![ws].deviceId = deviceId]

\* WebSocketManager.updateClientDevice
updateClientDevice(info, ws, deviceId) ==
    IF ws \in Range(clients)
    THEN [info EXCEPT ![ws].deviceId = deviceId]
    ELSE info

\* a connection from clientIP: the connection rate limit, addClient and the
\* acknowledgment; a refused socket is closed and gets no handlers
WsConnection(clientIP) ==
    LET ws == Len(sockets) + 1
        clientId == <<clientIP, "_", ToString(dateNow)>>
        a == isAllowed(rateLimiterClients, <<clientIP>>, WebsocketConnection,
                       dateNow)
        socket == [readyState |-> IF a.result.allowed THEN "OPEN" ELSE "CLOSED",
                   clientId |-> clientId, sendThrows |-> FALSE]
    IN  /\ WithinViolations(a.result)
        /\ rateLimiterClients' = a.clients
        /\ rateLimitResult' = Some(a.result)
        /\ sockets' = Append(sockets, socket)
        /\ IF a.result.allowed
           THEN /\ clients' = Append(clients, ws)
                /\ clientInfo' = [w \in DOMAIN clientInfo \cup {ws} |->
                                    IF w = ws
                                    THEN [deviceId |-> NULL, lastPing |-> dateNow,
                                          isAlive |-> TRUE]
                                    ELSE clientInfo[w]]
                /\ sent' = {Frame(ws, "connection_established")}
           ELSE /\ sent' = {}
                /\ UNCHANGED <<clients, clientInfo>>
        /\ broadcastResult' = None
        /\ broadcastLog' = None
        /\ UNCHANGED <<pending, dateNow, timers>>
        /\ NoStore

\* a message JSON.parse throws on: the handler throws Invalid JSON message
InvalidJSON == [type |-> "Invalid JSON message", deviceId |-> NULL]

\* a switch whose default branch answers as to a ping
ReplyTypeDefaultPong(data) ==
    CASE data = InvalidJSON -> "error"
      [] data.type = "register_device" -> "error"
      [] data.type = "get_stats" -> "stats_response"
      [] OTHER -> "pong"

\* the type of the frame sent in reply to a message that does not suspend
\* the handler: the catch block sends an error when JSON.parse threw or a
\* register_device has no deviceId, the default branch of the switch sends
\* one for an unknown type
ReplyType(data) ==
    CASE data = InvalidJSON -> "error"
      [] data.type = "register_device" -> "error"
      [] data.type = "ping" -> "pong"
      [] data.type = "get_stats" -> "stats_response"
      [] OTHER -> "error"

\* ws.on('message'), an async function, up to its return or to its await:
\* markClientAlive, the message rate limit, then the switch on data.type.
\* ws.deviceId is never assigned, so the rate limit is keyed by the clientId
\* of the connection.  A register_device with a deviceId suspends the
\* handler at await registerDevice(...); the messages that follow are
\* handled while it is suspended.
WsMessage(ws, data) ==
    /\ ws \in DOMAIN sockets
    /\ sockets[ws].readyState = "OPEN"
    /\ LET alive == markClientAlive(clientInfo, ws, dateNow)
           a == isAllowed(rateLimiterClients, sockets[ws].clientId,
                          WebsocketMessage, dateNow)
       IN  /\ WithinViolations(a.result)
           /\ rateLimiterClients' = a.clients
           /\ rateLimitResult' = Some(a.result)
           /\ clientInfo' = alive
           /\ IF ~a.result.allowed
              THEN /\ sent' = {RateLimitExceeded(ws, a.result)}
                   /\ UNCHANGED registering
              ELSE IF data.type = "register_device" /\ data.deviceId /= NULL
              THEN /\ Len(registering) < MaxRegistering
                   /\ registering' = Append(registering,
                                            [ws |-> ws, deviceId |-> data.deviceId])
                   /\ sent' = {}
              ELSE /\ sent' = {Frame(ws, ReplyType(data))}
                   /\ UNCHANGED registering
    /\ broadcastResult' = None
    /\ broadcastLog' = None
    /\ resp' = NoResp
    /\ UNCHANGED <<sockets, clients, pending, dateNow, timers>>
    /\ UNCHANGED <<sales, conflicts, sync_log, now, pc, req>>
    /\ UNCHANGED <<pgPool, committed, call, devices>>

\* a close that ends the handlers of the socket that are suspended
RegistrationsEndedByClose(awaited, ws) ==
    SelectSeq(awaited, LAMBDA r : r.ws /= ws)

\* the handlers suspended at await registerDevice(...) once ws is closed:
\* nothing cancels them
RegistrationsAfterClose(awaited, ws) == awaited

\* await registerDevice(...) of the k-th suspended handler returns or
\* rejects, and the handler runs to its end.  Returned: the device is in the
\* store, updateClientDevice, ws.send(device_registered) and the broadcast
\* of device_connected.  On a socket that is no longer open ws.send either
\* throws or drops the frame, as the ws library at hand has it; when it
\* throws, here or on a broken transport, the broadcast is skipped.
\* Rejected, or ws.send thrown: the catch block sends an error frame if the
\* socket is open.
RegisterDeviceReturns(k, rejects, sendAfterCloseThrows) ==
    /\ k \in DOMAIN registering
    /\ LET ws == registering[k].ws
           deviceId == registering[k].deviceId
           open == sockets[ws].readyState = "OPEN"
           bound == updateClientDevice(clientInfo, ws, deviceId)
           b == broadcast(sockets, clients, bound, "device_connected", deviceId)
       IN  /\ registering' = SubSeq(registering, 1, k - 1)
                               \o SubSeq(registering, k + 1, Len(registering))
           /\ IF rejects
              THEN /\ sent' = IF open /\ ~sockets[ws].sendThrows
                              THEN {Frame(ws, "error")} ELSE {}
                   /\ broadcastResult' = None
                   /\ broadcastLog' = None
                   /\ UNCHANGED <<devices, clientInfo, clients, pending>>
              ELSE /\ devices' = devices \cup {deviceId}
                   /\ clientInfo' = bound
                   /\ IF sockets[ws].sendThrows \/ (~open /\ sendAfterCloseThrows)
                      THEN /\ sent' = {}
                           /\ broadcastResult' = None
                           /\ broadcastLog' = None
                           /\ UNCHANGED <<clients, pending>>
                      ELSE /\ Len(b.pending) <= MaxPending
                           /\ clients' = b.clients
                           /\ pending' = b.pending
                           /\ sent' = (IF open
                                       THEN {Event(ws, "device_registered", deviceId)}
                                       ELSE {}) \cup b.sent
                           /\ broadcastResult' = Some(b.returned)
                           /\ broadcastLog' = b.log
    /\ rateLimitResult' = None
    /\ resp' = NoResp
    /\ UNCHANGED <<sockets, rateLimiterClients, dateNow, timers>>
    /\ UNCHANGED <<sales, conflicts, sync_log, now, pc, req>>
    /\ UNCHANGED <<pgPool, committed, call>>

\* ws.on('pong')
Pong(ws) ==
    /\ ws \in DOMAIN sockets
    /\ sockets[ws].readyState = "OPEN"
    /\ clientInfo' = markClientAlive(clientInfo, ws, dateNow)
    /\ sent' = {}
    /\ broadcastResult' = None
    /\ broadcastLog' = None
    /\ rateLimitResult' = None
    /\ UNCHANGED <<sockets, clients, pending, rateLimiterClients, dateNow, timers>>
    /\ NoStore

\* ws.on('close'): the socket is closed; a bound connection is announced to
\* the other devices, then removed from the registry
WsClose(ws) ==
    /\ ws \in DOMAIN sockets
    /\ sockets[ws].readyState = "OPEN"
    /\ LET socks == [sockets EXCEPT ![ws].readyState = "CLOSED"]
       IN  /\ sockets' = socks
           /\ IF ws \in Range(clients) /\ clientInfo[ws].deviceId /= NULL
              THEN LET b == broadcast(socks, clients, clientInfo,
                                      "device_disconnected",
                                      clientInfo[ws].deviceId)
                   IN  /\ Len(b.pending) <= MaxPending
                       /\ clients' = removeClient(b.clients, {ws})
                       /\ pending' = b.pending
                       /\ sent' = b.sent
                       /\ broadcastResult' = Some(b.returned)
                       /\ broadcastLog' = b.log
              ELSE /\ clients' = removeClient(clients, {ws})
                   /\ sent' = {}
                   /\ broadcastResult' = None
                   /\ broadcastLog' = None
                   /\ UNCHANGED pending
    /\ registering' = RegistrationsAfterClose(registering, ws)
    /\ rateLimitResult' = None
    /\ resp' = NoResp
    /\ UNCHANGED <<clientInfo, rateLimiterClients, dateNow, timers>>
    /\ UNCHANGED <<sales, conflicts, sync_log, now, pc, req>>
    /\ UNCHANGED <<pgPool, committed, call, devices>>

\* ws.on('error'): removeClient, and nothing else; the close of the socket
\* follows as an event of its own
WsError(ws) ==
    /\ ws \in DOMAIN sockets
    /\ sockets[ws].readyState = "OPEN"
    /\ clients' = removeClient(clients, {ws})
    /\ sent' = {}
    /\ broadcastResult' = None
    /\ broadcastLog' = None
    /\ rateLimitResult' = None
    /\ UNCHANGED <<sockets, clientInfo, pending, rateLimiterClients, dateNow,
                   timers>>
    /\ NoStore

\* the transport of an open socket breaks: ws.send throws from now on
TransportBreaks(ws) ==
    /\ ws \in DOMAIN sockets
    /\ sockets[ws].readyState = "OPEN"
    /\ ~sockets[ws].sendThrows
    /\ sockets' = [sockets EXCEPT ![ws].sendThrows = TRUE]
    /\ sent' = {}
    /\ broadcastResult' = None
    /\ broadcastLog' = None
    /\ rateLimitResult' = None
    /\ UNCHANGED <<clients, clientInfo, pending, rateLimiterClients, dateNow,
                   timers>>
    /\ NoStore

\* ---- broadcast: processBatches after its first await ----

\* the next batch of the k-th suspended fan-out; after the last batch the
\* fan-out logs its counts and ends
ProcessBatches(k) ==
    /\ k \in DOMAIN pending
    /\ LET job == pending[k]
           b == sendBatch(sockets, clientInfo, Slice(job.clientArray, job.i),
                          job.excludeDeviceId)
           next == [job EXCEPT !.i = job.i + batchSize,
                               !.successCount = @ + Cardinality(b.delivered),
                               !.failureCount = @ + Cardinality(b.failed)]
       IN  /\ clients' = removeClient(clients, b.failed)
           /\ sent' = {Event(ws, job.type, job.excludeDeviceId) :
                         ws \in b.delivered}
           /\ IF next.i < Len(job.clientArray)
              THEN /\ pending' = [pending EXCEPT ![k] = next]
                   /\ broadcastLog' = None
              ELSE /\ pending' = SubSeq(pending, 1, k - 1)
                                   \o SubSeq(pending, k + 1, Len(pending))
                   /\ broadcastLog' = Some([successCount |-> next.successCount,
                                            failureCount |-> next.failureCount])
    /\ broadcastResult' = None
    /\ rateLimitResult' = None
    /\ UNCHANGED <<sockets, clientInfo, rateLimiterClients, dateNow, timers>>
    /\ NoStore

\* ---- the rate limiting middleware of the REST routes ----

\* isAllowed(clientIP, req.path): 429, or next() and no response yet
RestRequest(clientIP, path) ==
    LET a == isAllowed(rateLimiterClients, <<clientIP>>, path, dateNow)
    IN  /\ WithinViolations(a.result)
        /\ rateLimiterClients' = a.clients
        /\ rateLimitResult' = Some(a.result)
        /\ resp' = IF a.result.allowed
                   THEN NoResp
                   ELSE Reply(429, "Rate limit exceeded", None, None)
        /\ sent' = {}
        /\ broadcastResult' = None
        /\ broadcastLog' = None
        /\ UNCHANGED <<sockets, clients, clientInfo, pending, dateNow, timers>>
        /\ UNCHANGED <<sales, conflicts, sync_log, now, pc, req>>
        /\ NoDatabase

\* ---- time and the setInterval timers ----

\* Date.now() advances to t
Elapse(t) ==
    /\ dateNow < t
    /\ t <= MaxClock
    /\ dateNow' = t
    /\ sent' = {}
    /\ broadcastResult' = None
    /\ broadcastLog' = None
    /\ rateLimitResult' = None
    /\ UNCHANGED <<sockets, clients, clientInfo, pending, rateLimiterClients,
                   timers>>
    /\ NoStore

\* the timer of the RateLimiter fires, 60 seconds after construction at the
\* earliest: cleanup()
RateLimiterCleanup ==
    /\ dateNow >= 60000
    /\ rateLimiterClients' = cleanup(rateLimiterClients, dateNow)
    /\ sent' = {}
    /\ broadcastResult' = None
    /\ broadcastLog' = None
    /\ rateLimitResult' = None
    /\ UNCHANGED <<sockets, clients, clientInfo, pending, dateNow, timers>>
    /\ NoStore

\* a collection that goes by the age of the last sign of life alone
deadConnectionsByAge ==
    {ws \in Range(clients) : dateNow - clientInfo[ws].lastPing > 60000}

\* the entries WebSocketManager.cleanupDeadConnections collects
deadConnections ==
    {ws \in Range(clients) :
       dateNow - clientInfo[ws].lastPing > 60000 \/ ~clientInfo[ws].isAlive}

\* the cleanup timer fires: cleanupDeadConnections terminates the open dead
\* sockets and removes them from the registry
CleanupTimer ==
    /\ dateNow = timers.cleanup
    /\ sockets' = [ws \in DOMAIN sockets |->
                     IF ws \in deadConnections
                     THEN [sockets[ws] EXCEPT !.readyState = "CLOSED"]
                     ELSE sockets[ws]]
    /\ clients' = removeClient(clients, deadConnections)
    /\ timers' = [timers EXCEPT !.cleanup = @ + cleanupInterval]
    /\ sent' = {}
    /\ broadcastResult' = None
    /\ broadcastLog' = None
    /\ rateLimitResult' = None
    /\ UNCHANGED <<clientInfo, pending, rateLimiterClients, dateNow>>
    /\ NoStore

\* the callback of the ping timer, when the timer is due: every open
\* connection is marked not alive and pinged
PingCallback ==
    /\ dateNow = timers.ping
    /\ clientInfo' = [ws \in DOMAIN clientInfo |->
                        IF ws \in Range(clients) /\ sockets[ws].readyState = "OPEN"
                        THEN [clientInfo[ws] EXCEPT !.isAlive = FALSE]
                        ELSE clientInfo[ws]]
    /\ sent' = {Frame(ws, "ping") :
                  ws \in {w \in Range(clients) : sockets[w].readyState = "OPEN"}}
    /\ timers' = [timers EXCEPT !.ping = @ + pingInterval]
    /\ broadcastResult' = None
    /\ broadcastLog' = None
    /\ rateLimitResult' = None
    /\ UNCHANGED <<sockets, clients, pending, rateLimiterClients, dateNow>>
    /\ NoStore

\* the ping timer fires, after the cleanup timer that was started before it
PingTimer ==
    /\ dateNow < timers.cleanup
    /\ PingCallback

\* no update or delete handler is suspended at an await
NoneInFlight == \A c \in Clients : pc[c] = "idle"

\* The first sale is created by dev-1 for customer c1: the names of devices
\* and customers are interchangeable.
Next ==
    \/ Tick
    \/ \E customer \in {"c1", NULL}, device_id \in {"dev-1", NULL} :
          CreateSale(customer, device_id)
    \/ \E id \in UUIDs, device_id \in Devices \cup {NULL}, version \in Versions :
          PutSelect("A", id, device_id, version)
    \/ Begin("A")
    \/ \E device_id \in Devices, patch \in Customers \cup {NULL} :
          PutUpdate("A", device_id, patch)
    \/ \E id \in UUIDs, device_id \in Devices \cup {NULL} :
          DelSelect("A", id, device_id)
    \/ \E device_id \in Devices : DelExec("A", device_id)
    \/ NoneInFlight /\ \E sale_ids \in SUBSET UUIDs : MarkSynced(sale_ids)
    \/ NoneInFlight /\ \E id \in 1..(MaxConflicts + 1), strategy \in Strategies :
          ResolveConflict(id, strategy)

\* requests served one at a time
Spec == Init /\ [][Next]_vars

NextRace ==
    \/ Tick
    \/ \E customer \in {"c1", NULL}, device_id \in {"dev-1", NULL} :
          CreateSale(customer, device_id)
    \/ \E c \in Clients, id \in UUIDs, device_id \in Devices \cup {NULL},
          version \in Versions : PutSelect(c, id, device_id, version)
    \/ \E c \in Clients : Begin(c)
    \/ \E c \in Clients, device_id \in Devices, patch \in Customers \cup {NULL} :
          PutUpdate(c, device_id, patch)
    \/ \E id \in 1..(MaxConflicts + 1), strategy \in Strategies :
          ResolveConflict(id, strategy)

\* two update requests in flight at once
SpecRace == Init /\ [][NextRace]_vars

\* ---- the store write of a handler fails ----

\* POST /api/sales: executeTransaction throws, the INSERT having rejected
\* with error and the ROLLBACK with rollbackError, if it did; the catch
\* block answers
CreateSaleFails(customer, device_id, error, rollbackError) ==
    /\ customer /= NULL
    /\ device_id /= NULL
    /\ resp' \in CreateSaleCatch(executeTransactionCatch(error, rollbackError))
    /\ UNCHANGED <<sales, conflicts, sync_log, now, pc, req>>
    /\ NoRealtime

\* PUT /api/sales/:id: executeTransaction throws, the UPDATE having rejected
PutUpdateFails(c, error, rollbackError) ==
    /\ pc[c] = "begun"
    /\ req[c].kind = "put"
    /\ resp' \in UpdateSaleCatch(executeTransactionCatch(error, rollbackError))
    /\ pc' = [pc EXCEPT ![c] = "idle"]
    /\ req' = [req EXCEPT ![c] = NoReq]
    /\ UNCHANGED <<sales, conflicts, sync_log, now>>
    /\ NoRealtime

\* DELETE /api/sales/:id: executeTransaction throws, the SELECT
\* soft_delete_sale(...) having rejected
DelExecFails(c, error, rollbackError) ==
    /\ pc[c] = "begun"
    /\ req[c].kind = "delete"
    /\ resp' \in UpdateSaleCatch(executeTransactionCatch(error, rollbackError))
    /\ pc' = [pc EXCEPT ![c] = "idle"]
    /\ req' = [req EXCEPT ![c] = NoReq]
    /\ UNCHANGED <<sales, conflicts, sync_log, now>>
    /\ NoRealtime

\* the errors a ROLLBACK rejects with, or none
RollbackErrors == {None, Some(ConnectionError)}

\* The handlers of create, update and delete, requests served one at a
\* time, with store writes that fail.
NextStoreError ==
    \/ \E customer \in Customers, device_id \in Devices :
          CreateSale(customer, device_id)
    \/ \E customer \in Customers, device_id \in Devices, s \in Sqlstates,
          rollbackError \in RollbackErrors :
          CreateSaleFails(customer, device_id, StoreError(s), rollbackError)
    \/ \E id \in UUIDs, device_id \in Devices, version \in Versions :
          PutSelect("A", id, device_id, version)
    \/ Begin("A")
    \/ \E device_id \in Devices, patch \in Customers \cup {NULL} :
          PutUpdate("A", device_id, patch)
    \/ \E s \in Sqlstates, rollbackError \in RollbackErrors :
          PutUpdateFails("A", StoreError(s), rollbackError)
    \/ \E id \in UUIDs, device_id \in Devices : DelSelect("A", id, device_id)
    \/ \E device_id \in Devices : DelExec("A", device_id)
    \/ \E s \in Sqlstates, rollbackError \in RollbackErrors :
          DelExecFails("A", StoreError(s), rollbackError)

SpecStoreError == Init /\ [][NextStoreError]_vars

\* ---- DatabaseManager and /api/sync, statement by statement ----

\* a step of an invocation leaves the handlers that are modelled as a whole
\* and the real-time side alone
PoolStep ==
    /\ resp' = NoResp
    /\ sent' = {}
    /\ broadcastResult' = None
    /\ broadcastLog' = None
    /\ rateLimitResult' = None
    /\ UNCHANGED <<sales, conflicts, sync_log, now, pc, req>>
    /\ UNCHANGED <<sockets, clients, clientInfo, pending, rateLimiterClients,
                   dateNow, timers, devices, registering>>

\* executeQuery, executeTransaction(operations) with n operations, or the
\* /api/sync handler with a body of n operations that is valid or not, is
\* called once the invocation before it is over
StartCall(fn, n, valid) ==
    /\ call.pc = "done"
    /\ call.k < MaxCalls
    /\ call' = [NoCall EXCEPT !.k = call.k + 1, !.fn = fn, !.pc = "connect",
                              !.ops = n, !.i = 1, !.valid = valid]
    /\ UNCHANGED <<pgPool, committed>>
    /\ PoolStep

\* const client = await pool.connect(), before the try: when it rejects the
\* invocation throws with nothing acquired
PoolConnect(rejects) ==
    /\ call.pc = "connect"
    /\ IF rejects
       THEN /\ call' = [call EXCEPT !.pc = "done", !.outcome = "thrown",
                                    !.error = Some(ConnectionError)]
            /\ UNCHANGED pgPool
       ELSE /\ pgPool' = [pgPool EXCEPT !.acquired = @ + 1]
            /\ call' = [call EXCEPT !.acquired = 1,
                          !.pc = IF call.fn = "executeQuery" THEN "query"
                                 ELSE "begin"]
    /\ UNCHANGED committed
    /\ PoolStep

\* executeQuery: await client.query(query, values).  Outside a transaction
\* the effect of the statement is committed with it; on a connection that
\* was released with a transaction open it stays with that transaction.
\* The catch block throws handleDatabaseError(error).
Query(error) ==
    /\ call.pc = "query"
    /\ IF error = None
       THEN /\ IF pgPool.inTransaction
               THEN /\ pgPool' = [pgPool EXCEPT !.tentative = @ \cup {<<call.k, 1>>}]
                    /\ UNCHANGED committed
               ELSE /\ committed' = committed \cup {<<call.k, 1>>}
                    /\ UNCHANGED pgPool
            /\ call' = [call EXCEPT !.pc = "finally", !.outcome = "returned"]
       ELSE /\ call' = [call EXCEPT !.pc = "finally", !.outcome = "thrown",
                          !.error = Some(handleDatabaseError(The(error)))]
            /\ UNCHANGED <<pgPool, committed>>
    /\ PoolStep

\* await client.query('BEGIN')
TxnBegin(error) ==
    /\ call.pc = "begin"
    /\ IF error = None
       THEN /\ pgPool' = [pgPool EXCEPT !.inTransaction = TRUE]
            /\ call' = [call EXCEPT !.pc = IF call.fn = "sync" THEN "validate"
                                           ELSE "operation"]
       ELSE /\ call' = [call EXCEPT !.pc = "rollback", !.caught = error]
            /\ UNCHANGED pgPool
    /\ UNCHANGED committed
    /\ PoolStep

\* /api/sync: if (!device_id || !Array.isArray(operations)) return
\* res.status(400)..., inside the try and after BEGIN
SyncValidate ==
    /\ call.pc = "validate"
    /\ call' = IF call.valid
               THEN [call EXCEPT !.pc = "operation"]
               ELSE [call EXCEPT !.pc = "finally", !.outcome = "responded",
                                 !.status = Some(400)]
    /\ UNCHANGED <<pgPool, committed>>
    /\ PoolStep

\* for (const operation of operations) await client.query(...): the next
\* operation of the batch
TxnOperation(error) ==
    /\ call.pc = "operation"
    /\ IF error = None
       THEN /\ pgPool' = [pgPool EXCEPT !.tentative = @ \cup {<<call.k, call.i>>}]
            /\ call' = [call EXCEPT !.i = @ + 1,
                          !.pc = IF call.i = call.ops THEN "commit"
                                 ELSE "operation"]
       ELSE /\ call' = [call EXCEPT !.pc = "rollback", !.caught = error]
            /\ UNCHANGED pgPool
    /\ UNCHANGED committed
    /\ PoolStep

\* await client.query('COMMIT'), then return results, or res.json({results})
\* in /api/sync.  A COMMIT the store refuses ends the transaction without
\* its effects.
TxnCommit(error) ==
    /\ call.pc = "commit"
    /\ pgPool' = [pgPool EXCEPT !.inTransaction = FALSE, !.tentative = {}]
    /\ IF error = None
       THEN /\ committed' = committed \cup pgPool.tentative
            /\ call' = IF call.fn = "sync"
                       THEN [call EXCEPT !.pc = "finally",
                                         !.outcome = "responded",
                                         !.status = Some(200)]
                       ELSE [call EXCEPT !.pc = "finally",
                                         !.outcome = "returned"]
       ELSE /\ call' = [call EXCEPT !.pc = "rollback", !.caught = error]
            /\ UNCHANGED committed
    /\ PoolStep

\* a throw out of a catch block that skips the finally block
FinallySkippedByThrow(rollbackError) ==
    IF rollbackError = None THEN "finally" ELSE "done"

\* the finally block runs however the catch block is left
Finally(rollbackError) == "finally"

\* catch: await client.query('ROLLBACK').  When it rejects, which it does on
\* a connection that is gone, the session and its transaction are gone with
\* it and the rejection leaves the catch block in place of what follows:
\* the throw of the normalized error, or the 500 of /api/sync.
TxnRollback(rollbackError) ==
    /\ call.pc = "rollback"
    /\ pgPool' = [pgPool EXCEPT !.inTransaction = FALSE, !.tentative = {}]
    /\ call' = IF call.fn = "sync" /\ rollbackError = None
               THEN [call EXCEPT !.pc = Finally(rollbackError),
                                 !.outcome = "responded",
                                 !.status = Some(500)]
               ELSE [call EXCEPT !.pc = Finally(rollbackError),
                                 !.outcome = "thrown",
                                 !.error =
                                    IF call.fn = "sync" THEN rollbackError
                                    ELSE Some(executeTransactionCatch(
                                                 The(call.caught), rollbackError))]
    /\ UNCHANGED committed
    /\ PoolStep

\* finally: client.release()
Release ==
    /\ call.pc = "finally"
    /\ pgPool' = [pgPool EXCEPT !.released = @ + 1]
    /\ call' = [call EXCEPT !.pc = "done", !.releases = @ + 1]
    /\ UNCHANGED committed
    /\ PoolStep

\* the errors a statement rejects with, or none
StatementErrors == {None} \cup {Some(StoreError(c)) : c \in Sqlstates}

NextPool ==
    \/ \E fn \in {"executeTransaction", "sync"}, n \in 1..MaxOps,
          valid \in BOOLEAN :
          (fn = "sync" \/ valid) /\ StartCall(fn, n, valid)
    \/ StartCall("executeQuery", 1, TRUE)
    \/ \E rejects \in BOOLEAN : PoolConnect(rejects)
    \/ \E error \in StatementErrors : Query(error)
    \/ \E error \in StatementErrors : TxnBegin(error)
    \/ SyncValidate
    \/ \E error \in StatementErrors : TxnOperation(error)
    \/ \E error \in StatementErrors : TxnCommit(error)
    \/ \E rollbackError \in RollbackErrors : TxnRollback(rollbackError)
    \/ Release

SpecPool == Init /\ [][NextPool]_vars

\* ---- rate windows followed over a minute ----

ClientIPs == {"ip1"}                      \* req.ip, socket.remoteAddress
Paths == {<<"/api/sales">>}               \* req.path
Messages ==                               \* JSON.parse(message)
    {[type |-> "ping", deviceId |-> NULL],
     [type |-> "register_device", deviceId |-> "dev-1"]}

\* the instants at which requests arrive
RateInstants == {0, 1000, 2000, 3000, 4000, 5000, 59999, 60000}

\* the accepted requests of a window that were made at instant t
AcceptedAt(window, t) ==
    Cardinality({i \in DOMAIN window.requests : window.requests[i] = t})

\* the accepted requests of a window made after instant t
AcceptedSince(window, t) ==
    Cardinality({i \in DOMAIN window.requests : window.requests[i] > t})

\* Connections send in bursts: within an instant a connection either sends
\* nothing that is accepted or goes on until a further message would be
\* refused.
BurstsOver ==
    \A ws \in DOMAIN sockets :
       LET key == ClientKey(sockets[ws].clientId, WebsocketMessage)
       IN  key \in DOMAIN rateLimiterClients =>
             LET window == rateLimiterClients[key]
             IN  \/ AcceptedAt(window, dateNow) = 0
                 \/ AcceptedSince(window, dateNow - 1000) >= maxRequestsPerSecond
                 \/ AcceptedSince(window, dateNow - 60000) >= maxRequestsPerMinute

\* the last request was refused
Refused == rateLimitResult /= None /\ ~The(rateLimitResult).allowed

\* One connection is followed, and the first request on each REST path when
\* it comes from a client that has just been refused.  A registration is
\* awaited with nothing else going on.
NextRate ==
    \/ \E clientIP \in ClientIPs :
          sockets = << >> /\ WsConnection(clientIP)
    \/ \E ws \in DOMAIN sockets, data \in Messages :
          registering = << >> /\ WsMessage(ws, data)
    \/ \E k \in 1..MaxRegistering : RegisterDeviceReturns(k, FALSE, FALSE)
    \/ \E clientIP \in ClientIPs, path \in Paths :
          /\ registering = << >>
          /\ Refused
          /\ ClientKey(<<clientIP>>, path) \notin DOMAIN rateLimiterClients
          /\ RestRequest(clientIP, path)
    \/ \E t \in RateInstants :
          /\ registering = << >>
          /\ BurstsOver
          /\ \A u \in RateInstants : u > dateNow => t <= u
          /\ Elapse(t)

SpecRate == Init /\ [][NextRate]_vars

\* ---- rate windows followed over an hour ----

\* the instants at which requests arrive and the timer of the RateLimiter
\* fires: the first seconds, the end of the first minute, and the same one
\* hour later
SweepInstants ==
    {0, 1000, 2000, 3000, 4000, 5000, 59999, 60000,
     3600000, 3600001, 3605000, 3605001}

\* REST clients send in bursts, as connections do
RestBurstsOver ==
    \A clientIP \in ClientIPs, path \in Paths :
       LET key == ClientKey(<<clientIP>>, path)
       IN  key \in DOMAIN rateLimiterClients =>
             LET window == rateLimiterClients[key]
             IN  \/ AcceptedAt(window, dateNow) = 0
                 \/ AcceptedSince(window, dateNow - 1000) >= maxRequestsPerSecond
                 \/ AcceptedSince(window, dateNow - 60000) >= maxRequestsPerMinute

\* The REST requests of one client are followed, the first of them made at
\* instant 0, with the timer of the RateLimiter firing at any of the
\* instants.
NextSweep ==
    \/ \E clientIP \in ClientIPs, path \in Paths : RestRequest(clientIP, path)
    \/ \E t \in SweepInstants :
          /\ RestBurstsOver
          /\ dateNow = 0 => DOMAIN rateLimiterClients /= {}
          /\ \A u \in SweepInstants : u > dateNow => t <= u
          /\ Elapse(t)
    \/ RateLimiterCleanup

SpecSweep == Init /\ [][NextSweep]_vars

\* ---- the messages of one connection while a registration is awaited ----

\* JSON.parse(message), of the messages a connection sends
RegistrationMessages ==
    Messages \cup {[type |-> "get_stats", deviceId |-> NULL],
                   [type |-> "register_device", deviceId |-> NULL],
                   [type |-> "subscribe", deviceId |-> NULL],
                   InvalidJSON}

\* One connection is followed within one instant: it sends messages, its
\* registrations return or reject at any time, and it closes.
NextRegistration ==
    \/ \E clientIP \in ClientIPs : sockets = << >> /\ WsConnection(clientIP)
    \/ \E ws \in DOMAIN sockets, data \in RegistrationMessages :
          WsMessage(ws, data)
    \/ \E k \in 1..MaxRegistering, rejects \in BOOLEAN,
          sendAfterCloseThrows \in BOOLEAN :
          RegisterDeviceReturns(k, rejects, sendAfterCloseThrows)
    \/ \E ws \in DOMAIN sockets : WsClose(ws)

SpecRegistration == Init /\ [][NextRegistration]_vars

\* ---- fan-outs followed over a registry of more than one batch ----

\* the addresses connections come from, ten connections each, which the
\* connection rate limit lets through within one instant
FanoutIPs == <<"ip1", "ip2", "ip3", "ip4", "ip5", "ip6">>

\* the connections that register a device, in the first and the second batch
Registering == {1, batchSize + 1}

\* the connections whose transport breaks, in the first and the second batch
Breaking == {2, batchSize + 2}

\* the connections that close
Closing == {batchSize + 1}

\* Connections are accepted one after another; a sale is created by dev-1;
\* a connection registers before the next is accepted, and while its
\* registration is awaited it may close and nothing else goes on.
NextFanout ==
    \/ /\ Len(sockets) < FanoutSockets
       /\ registering = << >>
       /\ WsConnection(FanoutIPs[(Len(sockets) \div maxRequestsPerSecond) + 1])
    \/ \E ws \in Registering, deviceId \in Devices :
          /\ ws = Len(sockets)
          /\ ws \in DOMAIN clientInfo
          /\ clientInfo[ws].deviceId = NULL
          /\ WsMessage(ws, [type |-> "register_device", deviceId |-> deviceId])
    \/ \E k \in 1..MaxRegistering, sendAfterCloseThrows \in BOOLEAN :
          RegisterDeviceReturns(k, FALSE, sendAfterCloseThrows)
    \/ \E ws \in Breaking : registering = << >> /\ TransportBreaks(ws)
    \/ \E ws \in Closing : WsClose(ws)
    \/ registering = << >> /\ CreateSale("c1", "dev-1")
    \/ \E k \in 1..MaxPending : registering = << >> /\ ProcessBatches(k)

SpecFanout == Init /\ [][NextFanout]_vars

\* ---- connections followed over the periods of the timers ----

\* the instants at which connections arrive, send and answer probes, and at
\* which the timers are due
HeartbeatInstants == {k * 15000 : k \in 0..MaxHeartbeats}

\* Time does not pass a timer that is due: the timers fire on time, the
\* cleanup timer, which was started first, before the ping timer.  Of the
\* messages of a connection the first is followed.
NextHeartbeat ==
    \/ \E clientIP \in ClientIPs :
          Len(sockets) < HeartbeatSockets /\ WsConnection(clientIP)
    \/ \E ws \in DOMAIN sockets : Pong(ws)
    \/ \E ws \in DOMAIN sockets :
          /\ ClientKey(sockets[ws].clientId, WebsocketMessage)
               \notin DOMAIN rateLimiterClients
          /\ WsMessage(ws, [type |-> "ping", deviceId |-> NULL])
    \/ \E t \in HeartbeatInstants :
          /\ \A u \in HeartbeatInstants : u > dateNow => t <= u
          /\ t <= timers.cleanup
          /\ t <= timers.ping
          /\ Elapse(t)
    \/ CleanupTimer
    \/ PingTimer

SpecHeartbeat == Init /\ [][NextHeartbeat]_vars

\* ---- properties ----

\* the sale a suspended handler of client c addresses
Target(c) == The(req[c].id)

\* C1: the version check and the write of an update are evaluated against one
\* snapshot: an update that supplied an expected version is applied only
\* while the Record still has that version, so of two concurrent updates
\* carrying the same version at most one is applied.
C1_CheckAndWriteOneSnapshot ==
    [][\A c \in Clients, d \in Devices, p \in Customers \cup {NULL} :
         (PutUpdate(c, d, p) /\ Truthy(req[c].version) /\ ActiveSale(Target(c)))
            => sales[Target(c)].version = The(req[c].version)]_vars

\* C2: an update of a non-deleted Record at version V that carries the
\* expected version V-1 is answered with VersionConflict carrying the Record
\* at version V, for every V >= 1, and the Record is not overwritten.
C2_StaleVersionRejected ==
    [][\A id \in UUIDs, d \in Devices :
         (/\ ~ParseIntIsNaN(id)
          /\ ActiveSale(id)
          /\ PutSelect("A", id, d, Some(sales[id].version - 1)))
            => /\ resp'.status = 409
               /\ resp'.data = Some(sales[id])
               /\ UNCHANGED <<sales, pc, req>>]_vars

\* C3: an update answered with VersionConflict or NotFound is not applied:
\* the Record, the conflicts table and the sync log are unchanged, no
\* data_sync broadcast is issued and no handler is left in flight.
C3_RejectedUpdateNotApplied ==
    [][resp'.code \in {"VERSION_CONFLICT", "SALE_NOT_FOUND"}
         => /\ resp'.status \in {404, 409}
            /\ resp'.broadcast = None
            /\ UNCHANGED <<sales, conflicts, sync_log, pc, req>>]_vars

\* C3 witness: a client holding version 3 is answered with VersionConflict
\* carrying the Record at version 4.
C3_Witness ==
    /\ resp.code = "VERSION_CONFLICT"
    /\ \E id \in DOMAIN sales : sales[id].version = 4 /\ resp.data = Some(sales[id])

\* C4: after every update that proceeds, whichever device writes, the Record
\* has the previous version plus 1, the timestamp of the writing transaction,
\* the writer as deviceId and syncStatus pending.
C4_UpdateStampsRecord ==
    [][\A d \in Devices, p \in Customers \cup {NULL} :
         (PutUpdate("A", d, p) /\ ActiveSale(Target("A")))
            => /\ sales'[Target("A")].version = sales[Target("A")].version + 1
               /\ sales'[Target("A")].updated_at = req["A"].txnTime
               /\ sales'[Target("A")].device_id = d
               /\ sales'[Target("A")].sync_status = "pending"]_vars

\* C5: no step removes a Record or lowers its version, no step raises it by
\* more than 1, and every successful update or soft delete raises it by
\* exactly 1.
C5_VersionMonotone ==
    [][\A id \in DOMAIN sales :
         /\ id \in DOMAIN sales'
         /\ sales'[id].version >= sales[id].version
         /\ sales'[id].version <= sales[id].version + 1
         /\ (/\ resp'.status = 200
             /\ resp'.broadcast /= None
             /\ The(resp'.broadcast).id = id)
              => sales'[id].version = sales[id].version + 1]_vars

\* C5 witness: a soft delete has just succeeded on a Record that was updated
\* before; the Record is still stored, flagged as deleted.
C5_Witness ==
    /\ resp.status = 200
    /\ resp.broadcast /= None
    /\ The(resp.broadcast).operation = "DELETE"
    /\ \E id \in DOMAIN sales : sales[id].is_deleted /\ sales[id].version = 3

\* C6: a write creates a Conflict, and marks the Record as conflict, exactly
\* when the version its writer last saw is not the Record's version and the
\* writer is not the Record's last writer; an update that supplied the
\* Record's current version creates none.
C6_ConflictOnlyOnUnseenVersion ==
    [][\A d \in Devices, p \in Customers \cup {NULL} :
         (PutUpdate("A", d, p) /\ ActiveSale(Target("A")) /\ Truthy(req["A"].version))
            => /\ (conflicts' /= conflicts) <=>
                     (/\ sales[Target("A")].version /= The(req["A"].version)
                      /\ sales[Target("A")].device_id /= d)
               /\ (sales'[Target("A")].sync_status = "conflict") <=>
                     (/\ sales[Target("A")].version /= The(req["A"].version)
                      /\ sales[Target("A")].device_id /= d)]_vars

\* C7: resolving an existing Conflict with last_write_wins takes the snapshot
\* with the later updatedAt, the second one when they are equal, stamps the
\* Conflict as resolved with it and the strategy tag, copies its mutable
\* fields to the live Record and sets the Record's syncStatus to synced.
C7_LastWriteWins ==
    [][\A cid \in DOMAIN conflicts :
         ResolveConflict(cid, "last_write_wins")
            => /\ conflicts'[cid].is_resolved
               /\ conflicts'[cid].resolution_strategy = "last_write_wins"
               /\ conflicts[cid].data_1.updated_at > conflicts[cid].data_2.updated_at
                    => conflicts'[cid].resolution_data = Some(conflicts[cid].data_1)
               /\ conflicts[cid].data_1.updated_at <= conflicts[cid].data_2.updated_at
                    => conflicts'[cid].resolution_data = Some(conflicts[cid].data_2)
               /\ sales'[conflicts[cid].record_id].customer =
                     The(conflicts'[cid].resolution_data).customer
               /\ sales'[conflicts[cid].record_id].sync_status = "synced"
               /\ resp'.status = 200]_vars

\* C7 witness: a Conflict whose first snapshot is the later one has just been
\* resolved to that snapshot, and the Record carries its fields.
C7_Witness ==
    /\ resp.code = "Conflict resolved successfully"
    /\ \E cid \in DOMAIN conflicts :
         /\ conflicts[cid].is_resolved
         /\ conflicts[cid].data_1.updated_at > conflicts[cid].data_2.updated_at
         /\ conflicts[cid].data_1.customer /= conflicts[cid].data_2.customer
         /\ conflicts[cid].resolution_data = Some(conflicts[cid].data_1)
         /\ sales[conflicts[cid].record_id].customer = conflicts[cid].data_1.customer
         /\ sales[conflicts[cid].record_id].sync_status = "synced"

\* C8: resolving a Conflict that is already resolved yields the same
\* canonical snapshot and leaves the live Record, fields and version, as it
\* was before the call.
C8_ResolveIdempotent ==
    [][\A cid \in DOMAIN conflicts :
         (conflicts[cid].is_resolved /\ ResolveConflict(cid, "last_write_wins"))
            => /\ conflicts'[cid].resolution_data = conflicts[cid].resolution_data
               /\ sales' = sales]_vars

\* C9: a Conflict is never deleted, and once it is resolved no step changes
\* its resolved flag, resolution snapshot, strategy tag or resolvedAt.
C9_ResolvedConflictFrozen ==
    [][\A cid \in DOMAIN conflicts :
         /\ cid \in DOMAIN conflicts'
         /\ conflicts[cid].is_resolved
              => /\ conflicts'[cid].is_resolved
                 /\ conflicts'[cid].resolution_data = conflicts[cid].resolution_data
                 /\ conflicts'[cid].resolution_strategy = conflicts[cid].resolution_strategy
                 /\ conflicts'[cid].resolved_at = conflicts[cid].resolved_at]_vars

\* C10: resolve with a strategy other than last_write_wins is answered with
\* the unsupported-strategy error, resolve of a conflict id that does not
\* exist with not-found, and neither modifies a Conflict or a Record.
C10_RejectedResolve ==
    [][\A cid \in 1..(MaxConflicts + 1), strategy \in Strategies :
         (/\ (strategy /= "last_write_wins" \/ cid \notin DOMAIN conflicts)
          /\ ResolveConflict(cid, strategy))
            => /\ strategy /= "last_write_wins"
                    => (resp'.status = 400 /\
                        resp'.code = "Unsupported resolution strategy")
               /\ strategy = "last_write_wins"
                    => (resp'.status = 404 /\ resp'.code = "Conflict not found")
               /\ UNCHANGED <<sales, conflicts>>]_vars

\* C10 witness: an unsupported strategy has just been rejected while an
\* unresolved Conflict is stored.
C10_Witness ==
    /\ resp.code = "Unsupported resolution strategy"
    /\ \E cid \in DOMAIN conflicts : ~conflicts[cid].is_resolved

\* ---- properties of the rate limiter ----

\* the window kept under a key, if any
Window(key) ==
    IF key \in DOMAIN rateLimiterClients THEN Some(rateLimiterClients[key])
    ELSE None

\* this step is a call of isAllowed under the key
Admit(key) ==
    /\ rateLimitResult' /= None
    /\ key \in DOMAIN rateLimiterClients'
    /\ Window(key) /= Some(rateLimiterClients'[key])

\* the requests accepted under the key in the last ms milliseconds
Accepted(key, ms) ==
    IF key \in DOMAIN rateLimiterClients
    THEN AcceptedSince(rateLimiterClients[key], dateNow - ms)
    ELSE 0

\* C15: a call of isAllowed under a key that already has 10 accepted requests
\* within the last second is refused, and a call under a key that has fewer,
\* and is below the minute cap, is accepted: of the requests a key issues
\* within one second, the first 10 are allowed and the 11th is refused.
C15_BurstCap ==
    [][\A key \in DOMAIN rateLimiterClients' :
         Admit(key) =>
           /\ Accepted(key, 1000) >= 10 => ~The(rateLimitResult').allowed
           /\ (Accepted(key, 1000) < 10 /\ Accepted(key, 60000) < 60)
                => The(rateLimitResult').allowed]_vars

\* C15 witness: the 11th request of a key within one instant has just been
\* refused, its first 10 having been accepted.
C15_Witness ==
    /\ Refused
    /\ \E key \in DOMAIN rateLimiterClients :
          /\ rateLimiterClients[key].requests = [i \in 1..10 |-> dateNow]
          /\ rateLimiterClients[key].violations = 1
          /\ The(rateLimitResult).violations = Some(1)

\* C16: a call under a key that has 60 accepted requests within the last 60
\* seconds is refused with nothing remaining; once requests of a window that
\* held 60 have left the last 60 seconds, a call that is not a burst is
\* accepted again.
C16_MinuteCap ==
    [][\A key \in DOMAIN rateLimiterClients' :
         Admit(key) =>
           /\ Accepted(key, 60000) >= 60
                => /\ ~The(rateLimitResult').allowed
                   /\ The(rateLimitResult').remaining = 0
           /\ (/\ key \in DOMAIN rateLimiterClients
               /\ Len(rateLimiterClients[key].requests) >= 60
               /\ Accepted(key, 60000) < 60
               /\ Accepted(key, 1000) < 10)
                => The(rateLimitResult').allowed]_vars

\* C16 witness: a request has just been refused under a key whose 60 accepted
\* requests, the oldest made at instant 0, are all within the last 60 seconds
\* and none within the last second.
C16_Witness ==
    /\ Refused
    /\ The(rateLimitResult).remaining = 0
    /\ dateNow = 59999
    /\ \E key \in DOMAIN rateLimiterClients :
          /\ Len(rateLimiterClients[key].requests) = 60
          /\ rateLimiterClients[key].requests[1] = 0
          /\ rateLimiterClients[key].violations = 1

\* the (client identity, endpoint) pairs under which isAllowed is called
Pairs ==
    {<<<<clientIP>>, WebsocketConnection>> : clientIP \in ClientIPs}
      \cup {<<<<clientIP>>, path>> : clientIP \in ClientIPs, path \in Paths}
      \cup {<<sockets[ws].clientId, WebsocketMessage>> : ws \in DOMAIN sockets}

\* C17: two distinct (client identity, endpoint) pairs have distinct keys,
\* and no step changes the windows of two pairs: a call under one pair leaves
\* the window of every other pair, on which alone its decisions depend, as
\* it was.
C17_PairsIndependent ==
    [][\A p \in Pairs', q \in Pairs' :
         p /= q =>
           /\ ClientKey(p[1], p[2]) /= ClientKey(q[1], q[2])
           /\ ~(Admit(ClientKey(p[1], p[2])) /\ Admit(ClientKey(q[1], q[2])))
           /\ Admit(ClientKey(p[1], p[2]))
                => Window(ClientKey(q[1], q[2]))' = Window(ClientKey(q[1], q[2]))]_vars

\* C17 witness: the first REST request of a client has just been accepted
\* while the messages of its connection are being refused.
C17_Witness ==
    /\ rateLimitResult /= None
    /\ The(rateLimitResult).allowed
    /\ \E clientIP \in ClientIPs, path \in Paths, ws \in DOMAIN sockets :
          /\ Window(ClientKey(<<clientIP>>, path))
               = Some([requests |-> <<dateNow>>, lastReset |-> dateNow,
                       violations |-> 0])
          /\ sockets[ws].clientId[1] = clientIP
          /\ Accepted(ClientKey(sockets[ws].clientId, WebsocketMessage), 1000) >= 10
          /\ rateLimiterClients[ClientKey(sockets[ws].clientId,
                                          WebsocketMessage)].violations >= 1

\* C18: a message that the rate limit refuses is answered with exactly one
\* frame, rate_limit_exceeded with resetTime and violations, and nothing
\* else happens: no pong, no binding, no broadcast.  A message of a
\* connection that already has 10 accepted within the last second is so
\* refused.
C18_RefusedMessage ==
    [][\A ws \in DOMAIN sockets :
         LET key == ClientKey(sockets[ws].clientId, WebsocketMessage)
         IN  Admit(key) =>
               /\ Accepted(key, 1000) >= 10 => ~The(rateLimitResult').allowed
               /\ ~The(rateLimitResult').allowed =>
                     /\ sent' = {[ws |-> ws, type |-> "rate_limit_exceeded",
                                  deviceId |-> NULL,
                                  resetTime |-> Some(dateNow),
                                  violations |->
                                    Some(rateLimiterClients'[key].violations)]}
                     /\ rateLimiterClients'[key].violations >= 1
                     /\ clientInfo'[ws].deviceId = clientInfo[ws].deviceId
                     /\ broadcastResult' = None
                     /\ UNCHANGED <<sockets, clients, pending>>]_vars

\* C18 witness: the 11th message of a connection within one instant has just
\* been answered with rate_limit_exceeded, the connection not being bound.
C18_Witness ==
    \E ws \in DOMAIN sockets :
       LET key == ClientKey(sockets[ws].clientId, WebsocketMessage)
       IN  /\ key \in DOMAIN rateLimiterClients
           /\ rateLimiterClients[key].requests = [i \in 1..10 |-> dateNow]
           /\ sent = {[ws |-> ws, type |-> "rate_limit_exceeded",
                       deviceId |-> NULL,
                       resetTime |-> Some(dateNow), violations |-> Some(1)]}
           /\ clientInfo[ws].deviceId = NULL

\* ---- properties of the sync log ----

\* C20: every successful create, update and delete appends exactly one entry
\* to the sync log, with the device of the writer, the kind of operation and
\* the record, no other step appends, and the entries already there are
\* neither modified nor deleted.
C20_OneLogEntryPerMutation ==
    [][/\ Len(sync_log') >= Len(sync_log)
       /\ SubSeq(sync_log', 1, Len(sync_log)) = sync_log
       /\ IF resp'.broadcast /= None
          THEN LET mutation == The(resp'.broadcast)
               IN  /\ Len(sync_log') = Len(sync_log) + 1
                   /\ sync_log'[Len(sync_log')].device_id
                        = mutation.excludeDeviceId
                   /\ sync_log'[Len(sync_log')].record_id = mutation.id
                   /\ sync_log'[Len(sync_log')].table_name = "sales"
          ELSE sync_log' = sync_log]_vars

\* ---- properties of broadcast ----

\* the types of the events that are broadcast
Broadcasts == {"data_sync", "device_connected", "device_disconnected"}

\* the sockets of a batch that are open and not bound to the device, once the
\* step has bound or closed the socket it is about
Recipients(batch, D) ==
    {ws \in Range(batch) : /\ sockets'[ws].readyState = "OPEN"
                           /\ clientInfo'[ws].deviceId /= D}

\* the step sends the event to the recipients of the batch whose send does
\* not throw, and to no other socket
SentTo(type, D, batch) ==
    {f \in sent' : f.type = type}
      = {Event(ws, type, D) :
           ws \in {w \in Recipients(batch, D) : ~sockets'[w].sendThrows}}

\* C11: no event that is broadcast excluding device D is sent to a
\* connection bound to D; the call of broadcast sends it to exactly the open
\* connections not bound to D among the first 50 of the registry, each later
\* step of the fan-out to exactly those among the next 50 of the snapshot,
\* and the batches still to come start inside the snapshot at a multiple of
\* 50, whether the registry fills one batch or several.  (A send that throws
\* delivers nothing: C12.)
C11_BroadcastExcludes ==
    [][/\ \A f \in sent' :
            f.type \in Broadcasts
              => /\ clientInfo'[f.ws].deviceId /= f.deviceId
                 /\ sockets'[f.ws].readyState = "OPEN"
       /\ resp'.broadcast /= None
            => SentTo("data_sync", The(resp'.broadcast).excludeDeviceId,
                      Slice(clients, 0))
       /\ \A ws \in DOMAIN clientInfo :
            /\ (clientInfo[ws].deviceId = NULL /\ clientInfo'[ws].deviceId /= NULL)
                 => SentTo("device_connected", clientInfo'[ws].deviceId,
                           Slice(clients, 0))
            /\ (/\ sockets[ws].readyState = "OPEN"
                /\ sockets'[ws].readyState = "CLOSED"
                /\ ws \in Range(clients)
                /\ clientInfo[ws].deviceId /= NULL)
                 => SentTo("device_disconnected", clientInfo[ws].deviceId,
                           Slice(clients, 0))
       /\ \A k \in DOMAIN pending :
            ProcessBatches(k)
              => SentTo(pending[k].type, pending[k].excludeDeviceId,
                        Slice(pending[k].clientArray, pending[k].i))
       /\ \A k \in DOMAIN pending' :
            /\ pending'[k].i % batchSize = 0
            /\ pending'[k].i < Len(pending'[k].clientArray)]_vars

\* C11 witness: the last batch of a data_sync written by dev-1 has just been
\* sent over a registry of more than 50 connections: the 52nd connection got
\* it and the 51st, bound to dev-1, did not.
C11_Witness ==
    /\ broadcastLog /= None
    /\ Len(clients) > batchSize
    /\ batchSize + 2 \in DOMAIN clientInfo
    /\ clientInfo[batchSize + 1].deviceId = "dev-1"
    /\ Event(batchSize + 2, "data_sync", "dev-1") \in sent
    /\ \A f \in sent : f.ws /= batchSize + 1

\* the recipients of a batch whose send throws
Failing(batch, D) == {ws \in Recipients(batch, D) : sockets'[ws].sendThrows}

\* the step removes from the registry the recipients of the batch whose send
\* throws, and only them, and sends the event to the other recipients
FailuresContained(type, D, batch) ==
    /\ clients' = SelectSeq(clients, LAMBDA ws : ws \notin Failing(batch, D))
    /\ \A ws \in Recipients(batch, D) \ Failing(batch, D) :
          Event(ws, type, D) \in sent'

\* C12: a send that throws during a broadcast stops nothing: in the step of
\* its batch the failing connection leaves the registry and the other open
\* connections of the batch, before and after it, are sent the event, in the
\* first batch as in the later ones; the handler that called broadcast gets
\* its counts back and answers with success.
C12_SendFailureContained ==
    [][/\ resp'.broadcast /= None
            => /\ FailuresContained("data_sync",
                                    The(resp'.broadcast).excludeDeviceId,
                                    Slice(clients, 0))
               /\ resp'.status \in {200, 201}
               /\ broadcastResult' /= None
               /\ The(broadcastResult').failureCount
                    = Cardinality(Failing(Slice(clients, 0),
                                          The(resp'.broadcast).excludeDeviceId))
       /\ \A k \in DOMAIN pending :
            ProcessBatches(k)
              => FailuresContained(pending[k].type, pending[k].excludeDeviceId,
                                   Slice(pending[k].clientArray, pending[k].i))]_vars

\* C12 witness: the last batch of a data_sync has just been sent; the send to
\* the 52nd connection threw and the connection has left the registry, the
\* 51st connection was sent the event, and so was the 1st while the 2nd,
\* whose send threw in the first batch, has left the registry too.
C12_Witness ==
    /\ broadcastLog /= None
    /\ The(broadcastLog).failureCount = 2
    /\ batchSize + 2 \in DOMAIN sockets
    /\ sockets[batchSize + 2].sendThrows
    /\ sockets[2].sendThrows
    /\ Range(clients) \cap {2, batchSize + 2} = {}
    /\ batchSize + 1 \in Range(clients)
    /\ Event(batchSize + 1, "data_sync", "dev-1") \in sent

\* C13: the counts broadcast returns to its caller are the counts of the
\* fan-out: the number of connections the event was sent to and the number
\* of sends that threw, as logged when the last batch has been sent.
C13_ReturnedCounts ==
    [][/\ (broadcastResult' /= None /\ broadcastLog' /= None)
            => The(broadcastResult') = The(broadcastLog')
       /\ \A k \in DOMAIN pending :
            (ProcessBatches(k) /\ broadcastLog' /= None)
              => pending[k].returned = The(broadcastLog')]_vars

\* C14: the handler of a mutation answers in the step in which it calls
\* broadcast, the store write being committed: whenever the registry holds
\* more than one batch, the batches after the first are still to be sent
\* when the response is produced.
C14_FireAndForget ==
    [][resp'.broadcast /= None
         => LET mutation == The(resp'.broadcast)
            IN  /\ mutation.id \in DOMAIN sales'
                /\ resp'.data = Some(sales'[mutation.id])
                /\ IF Len(clients) > batchSize
                   THEN /\ Len(pending') = Len(pending) + 1
                        /\ pending'[Len(pending')].i = batchSize
                        /\ pending'[Len(pending')].clientArray = clients
                        /\ broadcastLog' = None
                   ELSE pending' = pending]_vars

\* C14 witness: a sale has been created and answered with 201 while the
\* second batch of its data_sync is still to be sent.
C14_Witness ==
    /\ resp.status = 201
    /\ resp.broadcast /= None
    /\ The(resp.broadcast).id \in DOMAIN sales
    /\ \E k \in DOMAIN pending :
          /\ pending[k].type = "data_sync"
          /\ pending[k].i < Len(pending[k].clientArray)

\* ---- properties of the heartbeat ----

\* C19: with the timers firing on time, a connection in the registry has
\* given a sign of life (its connection, a message, a pong) within the last
\* 60 seconds, and a connection that has left the registry is closed: a
\* connection that stays silent and answers no ping is removed by
\* cleanupDeadConnections, and terminated, before 60 seconds are over.
C19_SilentConnectionEvicted ==
    \A ws \in DOMAIN sockets :
       IF ws \in Range(clients)
       THEN dateNow - clientInfo[ws].lastPing <= 60000
       ELSE sockets[ws].readyState = "CLOSED"

\* C19 witness: a connection that was pinged and has not answered has just
\* been removed and terminated by the cleanup timer, another one that
\* answered staying in the registry.
C19_Witness ==
    /\ dateNow = timers.cleanup - cleanupInterval
    /\ \E ws \in DOMAIN clientInfo, other \in Range(clients) :
          /\ ws \notin Range(clients)
          /\ sockets[ws].readyState = "CLOSED"
          /\ ~clientInfo[ws].isAlive
          /\ dateNow - clientInfo[ws].lastPing > cleanupInterval
          /\ dateNow - clientInfo[ws].lastPing <= 60000
          /\ sockets[other].readyState = "OPEN"

\* ---- properties of the conflict trigger ----

\* C27: a write that leaves the Record with the device that wrote it last
\* creates no Conflict and does not leave the Record with syncStatus
\* conflict, whatever the versions, two updates of one device in flight at
\* once included.
C27_SameDeviceNeverConflicts ==
    [][\A id \in DOMAIN sales :
         (sales'[id] /= sales[id] /\ sales'[id].device_id = sales[id].device_id)
            => /\ Len(conflicts') = Len(conflicts)
               /\ sales'[id].sync_status /= "conflict"]_vars

\* C27 witness: a Record has been updated twice, by the device that created
\* it (any other writer would have created a Conflict), the second update
\* being answered while no Conflict is stored.
C27_Witness ==
    /\ resp.status = 200
    /\ resp.broadcast /= None
    /\ conflicts = << >>
    /\ \E id \in DOMAIN sales :
          /\ sales[id].version = 3
          /\ sales[id].device_id = The(resp.broadcast).excludeDeviceId
          /\ sales[id].sync_status = "pending"

\* ---- properties of the error paths ----

\* this step is the store write of a create, an update or a delete
Mutation ==
    \/ \E customer \in Customers, device_id \in Devices :
          CreateSale(customer, device_id)
    \/ \E c \in Clients, device_id \in Devices, patch \in Customers \cup {NULL} :
          PutUpdate(c, device_id, patch)
    \/ \E c \in Clients, device_id \in Devices : DelExec(c, device_id)

C28_WindowBounded ==
    [][\A key \in DOMAIN rateLimiterClients' :
         LET requests == rateLimiterClients'[key].requests
         IN  /\ Len(requests) <= 60
             /\ \A i \in 1..(Len(requests) - 1) : requests[i] <= requests[i + 1]
             /\ Admit(key)
                  => \A i \in DOMAIN requests : requests[i] > dateNow' - 60000]_vars

\* C28 witness: a window that held 60 timestamps, ten of each of the first
\* six seconds, has just taken a request one minute after the first: the
\* ten of instant 0 are gone and the new one is the last of 51.
C28_Witness ==
    /\ dateNow = 60000
    /\ rateLimitResult /= None
    /\ The(rateLimitResult).allowed
    /\ \E key \in DOMAIN rateLimiterClients :
          /\ Len(rateLimiterClients[key].requests) = 51
          /\ rateLimiterClients[key].requests[1] = 1000
          /\ rateLimiterClients[key].requests[51] = 60000
          /\ rateLimiterClients[key].lastReset = 0

\* C29: a call of isAllowed that refuses adds exactly 1 to the violations of
\* the key and records no timestamp, the window keeping just its timestamps
\* of the last minute, and the caller answers 429; a call that accepts
\* records exactly one timestamp, the instant of the call, and leaves the
\* violations as they were.
C29_AdmitFrame ==
    [][\A key \in DOMAIN rateLimiterClients' :
         Admit(key) =>
           LET known == key \in DOMAIN rateLimiterClients
               requests == IF known
                           THEN Prune(rateLimiterClients[key].requests, dateNow)
                           ELSE << >>
               violations == IF known THEN rateLimiterClients[key].violations
                             ELSE 0
               after == rateLimiterClients'[key]
           IN  IF The(rateLimitResult').allowed
               THEN /\ after.requests = Append(requests, dateNow)
                    /\ after.violations = violations
                    /\ resp'.status /= 429
               ELSE /\ after.requests = requests
                    /\ after.violations = violations + 1
                    /\ The(rateLimitResult').violations = Some(violations + 1)
                    /\ resp'.status = 429]_vars

\* C29 witness: a second request has just been refused with 429 under a key
\* whose window still holds the 60 timestamps it held before the two.
C29_Witness ==
    /\ Refused
    /\ resp.status = 429
    /\ The(rateLimitResult).violations = Some(2)
    /\ \E key \in DOMAIN rateLimiterClients :
          /\ Len(rateLimiterClients[key].requests) = 60
          /\ rateLimiterClients[key].violations = 2

\* the decision of a call of isAllowed made at instant t for the client and
\* the path, on the windows rl
Decision(rl, clientIP, path, t) ==
    isAllowed(rl, <<clientIP>>, path, t).result.allowed

\* cleanup() leaves every decision of a later call as it would have been
DecisionsKept ==
    \A clientIP \in ClientIPs, path \in Paths, t \in SweepInstants :
       t >= dateNow
         => Decision(rateLimiterClients', clientIP, path, t)
              = Decision(rateLimiterClients, clientIP, path, t)

\* C30: cleanup() removes a key only if the key was created more than an
\* hour ago and none of its timestamps is younger than an hour, keeps every
\* key that has a timestamp younger than an hour, and changes the decision
\* of no later call of isAllowed.  A request accepted exactly one hour before
\* does not keep the key.
C30_SweepRemovesIdle ==
    [][RateLimiterCleanup =>
         /\ \A key \in DOMAIN rateLimiterClients :
               LET client == rateLimiterClients[key]
               IN  /\ key \notin DOMAIN rateLimiterClients'
                        => /\ client.lastReset < dateNow - 3600000
                           /\ \A i \in DOMAIN client.requests :
                                 client.requests[i] <= dateNow - 3600000
                   /\ (\E i \in DOMAIN client.requests :
                          client.requests[i] > dateNow - 3600000)
                        => key \in DOMAIN rateLimiterClients'
         /\ DecisionsKept]_vars

\* C30 as stated: cleanup() removes a key only if every timestamp of the key
\* is more than an hour old, and changes the decision of no later call.
C30_RemovedOverAnHour ==
    [][RateLimiterCleanup =>
         /\ \A key \in DOMAIN rateLimiterClients :
               key \notin DOMAIN rateLimiterClients'
                 => \A i \in DOMAIN rateLimiterClients[key].requests :
                       rateLimiterClients[key].requests[i] < dateNow - 3600000
         /\ DecisionsKept]_vars

\* C30 witness: the key of the client, created at instant 0, has been
\* removed by cleanup() and the first request after that, made more than an
\* hour after the last, has just been accepted under a new window.
C30_Witness ==
    /\ dateNow >= 3600001
    /\ rateLimitResult /= None
    /\ The(rateLimitResult).allowed
    /\ \E key \in DOMAIN rateLimiterClients :
          rateLimiterClients[key]
            = [requests |-> <<dateNow>>, lastReset |-> dateNow, violations |-> 0]

\* ---- properties of the pool and of transactions ----

\* C22: when an invocation of executeTransaction that got its connection is
\* over, then either it threw, none of the effects of its operations is
\* visible in the store and the error thrown is a normalized one, or it
\* returned and the effects of all its operations are visible.
C22_AllOrNothing ==
    (call.fn = "executeTransaction" /\ call.pc = "done" /\ call.acquired = 1)
      => IF call.outcome = "thrown"
         THEN /\ Effects(call.k, call.ops) \cap committed = {}
              /\ Typed(The(call.error))
         ELSE /\ call.outcome = "returned"
              /\ Effects(call.k, call.ops) \subseteq committed

ClassifiedStatus(sqlstate) ==
    CASE sqlstate = "23505" -> 409
      [] sqlstate \in {"23503", "23502", "23514"} -> 400
      [] sqlstate \in {"08006", "08003", "57P01", "53300"} -> 503
      [] OTHER -> 500

\* this step is a create, update or delete whose store write failed with
\* the code and was rolled back
StoreWriteFails(sqlstate) ==
    \/ \E customer \in Customers, device_id \in Devices :
          CreateSaleFails(customer, device_id, StoreError(sqlstate), None)
    \/ \E c \in Clients : PutUpdateFails(c, StoreError(sqlstate), None)
    \/ \E c \in Clients : DelExecFails(c, StoreError(sqlstate), None)

\* C24: a create, update or delete whose store write fails with a store
\* error code is answered with one error response that has the status and
\* the kind of the classification of the code.
C24_ClassificationKept ==
    [][\A sqlstate \in Sqlstates :
         StoreWriteFails(sqlstate)
           => /\ resp'.status = ClassifiedStatus(sqlstate)
              /\ resp'.code = handleDatabaseError(StoreError(sqlstate)).code]_vars

\* ---- properties of the message handlers ----

\* C25: while the handler of a register_device message of a connection is
\* suspended at its store call, nothing is sent to the connection in reply
\* to a message that arrived after it: the device_registered reply, or the
\* error, comes first.
C25_ArrivalOrder ==
    [][\A k \in DOMAIN registering :
         registering[k] \in Range(registering')
           => \A f \in sent' :
                 f.ws = registering[k].ws => f.type \in Broadcasts]_vars

\* C26: no step sends a frame to a socket that is closed, be it the step in
\* which the socket closes, a later call of broadcast or a later batch of a
\* fan-out whose snapshot holds the socket; and the step in which a socket
\* closes leaves the registrations awaited as they are, each of which puts
\* its device into the store when it returns.
C26_CloseStopsDelivery ==
    [][/\ \A f \in sent' : sockets'[f.ws].readyState = "OPEN"
       /\ \A k \in DOMAIN pending :
            ProcessBatches(k)
              => \A ws \in Range(pending[k].clientArray) :
                    sockets[ws].readyState = "CLOSED"
                      => \A f \in sent' : f.ws /= ws
       /\ \A ws \in DOMAIN sockets :
            (sockets[ws].readyState = "OPEN" /\ sockets'[ws].readyState = "CLOSED")
              => registering' = registering
       /\ \A k \in DOMAIN registering :
            (\E throws \in BOOLEAN : RegisterDeviceReturns(k, FALSE, throws))
              => registering[k].deviceId \in devices']_vars

\* C26 witness: the 51st connection has closed while the fan-out of a
\* data_sync, whose snapshot holds it, has its second batch still to send.
C26_Witness ==
    /\ batchSize + 1 \in DOMAIN sockets
    /\ sockets[batchSize + 1].readyState = "CLOSED"
    /\ batchSize + 1 \notin Range(clients)
    /\ \E k \in DOMAIN pending :
          /\ pending[k].type = "data_sync"
          /\ pending[k].i = batchSize
          /\ pending[k].clientArray[batchSize + 1] = batchSize + 1

\* C40: a connection that is back in the pool has no open transaction:
\* whenever every acquired connection has been released, whichever way the
\* invocation that held it ended, the session of the connection is outside
\* a transaction and holds no uncommitted effect that a later operation
\* could run into.
C40_ReleasedOutsideTransaction ==
    (call.pc = "done" /\ pgPool.released = pgPool.acquired)
      => /\ pgPool.inTransaction = FALSE
         /\ pgPool.tentative = {}

\* ---- properties of mark-synced ----

\* C37: marking Records as synced changes only their syncStatus: the
\* version, the update time, the writer and the business fields of every
\* Record are what they were, so the version a client holds stays the one
\* an update has to supply.
C37_MarkSyncedKeepsVersion ==
    [][\A sale_ids \in SUBSET UUIDs :
         MarkSynced(sale_ids)
            => \A id \in DOMAIN sales :
                  /\ sales'[id].version = sales[id].version
                  /\ sales'[id].updated_at = sales[id].updated_at
                  /\ sales'[id].device_id = sales[id].device_id
                  /\ sales'[id].customer = sales[id].customer
                  /\ sales'[id].is_deleted = sales[id].is_deleted]_vars

\* ---- broadcast called with and without excludeDeviceId ----

\* a call broadcast(data, excludeDeviceId) outside the handlers; NULL is the
\* argument left out, which the default of the parameter makes null
BroadcastCall(type, excludeDeviceId) ==
    /\ resp' = NoResp
    /\ UNCHANGED <<sales, conflicts, sync_log, now, pc, req>>
    /\ HandlerBroadcast(type, excludeDeviceId)

\* the connections followed when broadcast is called
BroadcastSockets == 3

\* Connections are accepted, some register a device, and broadcast is called
\* with a device to exclude or with none.
NextBroadcast ==
    \/ \E clientIP \in ClientIPs :
          /\ Len(sockets) < BroadcastSockets
          /\ registering = << >>
          /\ WsConnection(clientIP)
    \/ \E ws \in DOMAIN sockets, deviceId \in Devices :
          /\ clientInfo[ws].deviceId = NULL
          /\ WsMessage(ws, [type |-> "register_device", deviceId |-> deviceId])
    \/ \E k \in 1..MaxRegistering : RegisterDeviceReturns(k, FALSE, FALSE)
    \/ \E excludeDeviceId \in Devices \cup {NULL} :
          registering = << >> /\ BroadcastCall("data_sync", excludeDeviceId)

SpecBroadcast == Init /\ [][NextBroadcast]_vars

\* C39: a call of broadcast without excludeDeviceId sends the event to every
\* open connection of the registry, the connections that have bound no
\* device included.
C39_BroadcastToAll ==
    [][BroadcastCall("data_sync", NULL)
         => \A ws \in Range(clients) :
               sockets[ws].readyState = "OPEN"
                 => \E f \in sent' : f.ws = ws /\ f.type = "data_sync"]_vars

\* ---- properties of the registry ----

\* C33: a connection enters the registry without a device; the device of a
\* connection changes only in the step in which the store call of one of its
\* register_device messages returns, to the device of that message; a
\* device_connected broadcast is issued only in such a step and with the
\* connection bound to the device; and when the store call rejects, the
\* binding is left as it was and no broadcast is issued.
C33_BoundByRegistration ==
    [][/\ \A ws \in DOMAIN clientInfo' :
            IF ws \in DOMAIN clientInfo
            THEN clientInfo'[ws].deviceId /= clientInfo[ws].deviceId
                   => \E k \in DOMAIN registering, throws \in BOOLEAN :
                         /\ registering[k].ws = ws
                         /\ clientInfo'[ws].deviceId = registering[k].deviceId
                         /\ RegisterDeviceReturns(k, FALSE, throws)
            ELSE clientInfo'[ws].deviceId = NULL
       /\ \A k \in DOMAIN registering, rejects, throws \in BOOLEAN :
            RegisterDeviceReturns(k, rejects, throws)
              => /\ broadcastResult' /= None
                   => /\ ~rejects
                      /\ registering[k].ws \in Range(clients')
                      /\ clientInfo'[registering[k].ws].deviceId
                           = registering[k].deviceId
                 /\ rejects
                   => /\ clientInfo' = clientInfo
                      /\ broadcastResult' = None]_vars

\* the messages the handler answers with an error: not JSON, of a type the
\* switch does not know, and a register_device without deviceId
ErrorMessages ==
    {InvalidJSON, [type |-> "subscribe", deviceId |-> NULL],
     [type |-> "register_device", deviceId |-> NULL]}

\* C34: a message that passed the rate limit and is not JSON, has an unknown
\* type or is a register_device without deviceId is answered with exactly
\* one error frame to its sender; the step leaves the registry, the device
\* of every connection, the sockets and the registrations awaited as they
\* are and issues no broadcast.
C34_ErrorReplyOnly ==
    [][\A ws \in DOMAIN sockets, data \in ErrorMessages :
         (WsMessage(ws, data) /\ The(rateLimitResult').allowed)
            => /\ sent' = {Frame(ws, "error")}
               /\ clients' = clients
               /\ \A w \in DOMAIN clientInfo :
                     clientInfo'[w].deviceId = clientInfo[w].deviceId
               /\ sockets' = sockets
               /\ registering' = registering
               /\ devices' = devices
               /\ broadcastResult' = None
               /\ pending' = pending]_vars

\* C34 witness: a connection bound to dev-1 has just been sent an error in
\* reply to a message that passed the rate limit; it is open, in the
\* registry and still bound to dev-1.
C34_Witness ==
    /\ rateLimitResult /= None
    /\ The(rateLimitResult).allowed
    /\ sent = {Frame(1, "error")}
    /\ 1 \in Range(clients)
    /\ sockets[1].readyState = "OPEN"
    /\ clientInfo[1].deviceId = "dev-1"
    /\ broadcastResult = None

\* ---- connections that leave the registry ----

\* the connections followed on their way out of the registry
RegistrySockets == 2

\* the instants at which the timers are due
RegistryInstants == {cleanupInterval, 2 * cleanupInterval}

\* Two connections are accepted and register a device each; they answer
\* probes or not, the first errors, the transport of the second breaks, they
\* close, a handler broadcasts, and the timers fire on time, the cleanup
\* timer first.  While a registration is awaited the connections may error
\* or close and nothing else goes on; transports break and the handler
\* broadcasts before the first period of the timers.
NextRegistry ==
    \/ \E clientIP \in ClientIPs :
          /\ Len(sockets) < RegistrySockets
          /\ dateNow = 0
          /\ WsConnection(clientIP)
    \/ \E ws \in DOMAIN sockets :
          /\ dateNow = 0
          /\ clientInfo[ws].deviceId = NULL
          /\ WsMessage(ws, [type |-> "register_device",
                            deviceId |-> IF ws = 1 THEN "dev-1" ELSE "dev-2"])
    \/ \E k \in 1..MaxRegistering, throws \in BOOLEAN :
          RegisterDeviceReturns(k, FALSE, throws)
    \/ \E ws \in DOMAIN sockets :
          /\ registering = << >>
          /\ ws \in Range(clients) => ~clientInfo[ws].isAlive
          /\ Pong(ws)
    \/ WsError(1)
    \/ \E ws \in DOMAIN sockets : WsClose(ws)
    \/ registering = << >> /\ dateNow = 0 /\ TransportBreaks(2)
    \/ registering = << >> /\ dateNow = 0 /\ BroadcastCall("data_sync", "dev-1")
    \/ \E t \in RegistryInstants :
          /\ registering = << >>
          /\ \A u \in RegistryInstants : u > dateNow => t <= u
          /\ t <= timers.cleanup
          /\ t <= timers.ping
          /\ Elapse(t)
    \/ CleanupTimer
    \/ PingTimer

SpecRegistry == Init /\ [][NextRegistry]_vars

\* C32: a connection that is not in the registry is not put back by any
\* step and its entry is left as it is, whether a registration of it
\* returns from the store, a pong or a message of it arrives, or it is
\* removed once more; and a close or an error of a connection that is not
\* in the registry leaves the registry as it is.
C32_AbsentStaysAbsent ==
    [][\A ws \in DOMAIN clientInfo :
         ws \notin Range(clients)
           => /\ ws \notin Range(clients')
              /\ clientInfo'[ws] = clientInfo[ws]
              /\ (WsClose(ws) \/ WsError(ws)) => clients' = clients]_vars

\* C32 witness: the first connection left the registry while its
\* registration was awaited; the registration has returned and put the
\* device into the store, and the entry of the connection is unbound.
C32_Witness ==
    /\ 1 \in DOMAIN clientInfo
    /\ 1 \notin Range(clients)
    /\ clientInfo[1].deviceId = NULL
    /\ "dev-1" \in devices
    /\ registering = << >>

\* C38: whenever a connection bound to a device leaves the registry, a
\* broadcast is issued in the same step and every other open connection of
\* the registry that is bound to another device is sent device_disconnected
\* for the device.
C38_DisconnectAnnounced ==
    [][\A ws \in Range(clients) :
         (clientInfo[ws].deviceId /= NULL /\ ws \notin Range(clients'))
           => /\ broadcastResult' /= None
              /\ \A w \in Range(clients') :
                    (/\ sockets[w].readyState = "OPEN"
                     /\ ~sockets[w].sendThrows
                     /\ clientInfo[w].deviceId /= clientInfo[ws].deviceId)
                      => Event(w, "device_disconnected",
                               clientInfo[ws].deviceId) \in sent']_vars

\* ---- updates and deletes of one Record in flight at once ----

\* the device each client writes as
RaceDevice == [c \in Clients |-> IF c = "A" THEN "dev-1" ELSE "dev-2"]

\* A sale is created; each of two clients has an update or a delete of it
\* in flight, suspended between its SELECT, its BEGIN and its statement.
NextDeleteRace ==
    \/ Tick
    \/ CreateSale("c1", "dev-1")
    \/ \E c \in Clients, id \in DOMAIN sales, version \in {None, Some(1)} :
          PutSelect(c, id, RaceDevice[c], version)
    \/ \E c \in Clients, id \in DOMAIN sales : DelSelect(c, id, RaceDevice[c])
    \/ \E c \in Clients : Begin(c)
    \/ \E c \in Clients, patch \in {"c2", NULL} :
          PutUpdate(c, RaceDevice[c], patch)
    \/ \E c \in Clients : DelExec(c, RaceDevice[c])

SpecDeleteRace == Init /\ [][NextDeleteRace]_vars

\* C35: the statement of an update that finds its Record not deleted
\* answers 200 with the Record as written, its version raised by 1; the
\* statement of an update whose Record was deleted since its SELECT answers
\* 404 and leaves the Record as it is.
C35_UpdateAgainstDelete ==
    [][\A c \in Clients, patch \in {"c2", NULL} :
         PutUpdate(c, RaceDevice[c], patch)
            => IF ActiveSale(Target(c))
               THEN /\ resp'.status = 200
                    /\ sales'[Target(c)].version = sales[Target(c)].version + 1
                    /\ resp'.data = Some(sales'[Target(c)])
               ELSE /\ resp'.status = 404
                    /\ sales' = sales]_vars

NextTimers ==
    \/ \E clientIP \in ClientIPs :
          Len(sockets) < HeartbeatSockets /\ WsConnection(clientIP)
    \/ \E ws \in DOMAIN sockets : ~clientInfo[ws].isAlive /\ Pong(ws)
    \/ \E ws \in DOMAIN sockets :
          /\ ~clientInfo[ws].isAlive
          /\ ClientKey(sockets[ws].clientId, WebsocketMessage)
               \notin DOMAIN rateLimiterClients
          /\ WsMessage(ws, [type |-> "ping", deviceId |-> NULL])
    \/ \E t \in HeartbeatInstants :
          /\ \A ws \in Range(clients) : clientInfo[ws].isAlive
          /\ \A u \in HeartbeatInstants : u > dateNow => t <= u
          /\ t <= timers.cleanup
          /\ t <= timers.ping
          /\ Elapse(t)
    \/ CleanupTimer
    \/ PingCallback

SpecTimers == Init /\ [][NextTimers]_vars

\* C31: with every connection answering every probe before time goes on,
\* by a pong or by a message, no firing of the cleanup timer removes a
\* connection from the registry, whichever of the two timers fires first
\* when both are due.
C31_ResponsiveNeverEvicted ==
    [][CleanupTimer => Range(clients) \subseteq Range(clients')]_vars

====
